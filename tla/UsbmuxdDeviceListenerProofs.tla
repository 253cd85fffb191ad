---------------------- MODULE UsbmuxdDeviceListenerProofs ----------------------
(***************************************************************************)
(* What module UsbmuxdDeviceListener promises for any number of requests,  *)
(* of devices and of reports.  Whenever an answer comes, in whatever       *)
(* pieces, the protocol knows the request it answers: a tag is never in two*)
(* places on its way from the caller to usbmuxd and back.  And the map is  *)
(* what usbmuxd has reported: a record goes from the stream into the map   *)
(* whole, since its second piece comes right after the first.              *)
(***************************************************************************)
EXTENDS UsbmuxdDeviceListener, EventLoopProofs

Places == {"test", "select", "drain", "over", "killed"}

\* The results among the pieces that have arrived.
Results(inbox) == {i \in 1..Len(inbox) : inbox[i].part # "tail" /\ inbox[i].msg.kind = "Result"}

\* A tag that is on its way is in both maps.
Known(p, asked, queue, sent, inbox) ==
  /\ asked \cup sent \subseteq p.headers \cap p.handlers
  /\ \A i \in 1..Len(queue) : queue[i] \in p.headers \cap p.handlers
  /\ \A i \in Results(inbox) : inbox[i].msg.tag \in p.headers \cap p.handlers

\* It is in one place.
Once(asked, queue, sent, inbox) ==
  /\ asked \cap sent = {}
  /\ \A i, j \in 1..Len(queue) : queue[i] = queue[j] => i = j
  /\ \A i \in 1..Len(queue) : queue[i] \notin asked \cup sent
  /\ \A i, j \in Results(inbox) : inbox[i].msg.tag = inbox[j].msg.tag => i = j
  /\ \A i \in Results(inbox) : inbox[i].msg.tag \notin asked \cup sent
  /\ \A i \in 1..Len(queue), j \in Results(inbox) : queue[i] # inbox[j].msg.tag

\* The next tag is a new one.
Fresh == \A tag \in proto.headers \cup proto.handlers : tag < proto.tag

Underway == /\ Known(proto, asking, loop.queue, stream.requests, stream.inbox)
            /\ Once(asking, loop.queue, stream.requests, stream.inbox)

\* The second piece of a message comes right after the first, if it comes.
Pieced ==
  \A i \in 1..Len(stream.inbox) :
    stream.inbox[i].part = "head" =>
      IF i = Len(stream.inbox) THEN stream.rest \/ stream.ended
      ELSE stream.inbox[i + 1].part = "tail"

IInv == TypeOK /\ Fresh /\ Underway /\ Pieced /\ MapFollowsReports

\* A new listener satisfies the inductive invariant.
LEMMA InitIInv == Init => IInv
<1> SUFFICES ASSUME Init PROVE IInv
  OBVIOUS
<1> USE DEF Init, ClientInit
<1>1. loop \in Loop(Tags, Places) /\ loop.queue = << >> /\ m \in Machine
  BY NewTyped DEF Places, Types
<1>2. 0 \in Tags /\ 0 \in 0..MaxReports
  BY BoundAssumption DEF Tags
<1>3. /\ stream.inbox = << >> /\ stream.requests = {} /\ asking = {}
      /\ proto.headers = {} /\ proto.handlers = {}
  BY DEF NewStream, NewProtocol
<1>4. stream \in [inbox: Seq([msg: Messages, part: {"whole", "head", "tail"}]),
                  rest: BOOLEAN, requests: SUBSET Tags, ended: BOOLEAN, lost: BOOLEAN]
  BY DEF NewStream
<1>5. proto \in [tag: Tags, headers: SUBSET Tags, handlers: SUBSET Tags]
  BY <1>2 DEF NewProtocol
<1>6. TypeOK
  BY <1>1, <1>2, <1>4, <1>5 DEF TypeOK, Places
<1>7. Results(<< >>) = {}
  BY DEF Results
<1>8. Pieced /\ MapFollowsReports
  BY <1>3 DEF Pieced, MapFollowsReports, IsThere, Records
<1> QED
  BY <1>1, <1>3, <1>6, <1>7, <1>8 DEF IInv, Fresh, Underway, Known, Once

\* What is in the stream is a sequence of pieces.
Inboxes == Seq([msg: Messages, part: {"whole", "head", "tail"}])

\* A message is read from the front: what is left was there before.
LEMMA Reads ==
  ASSUME TypeOK, ReadMessage
  PROVE  /\ stream.inbox # << >> /\ stream' = [stream EXCEPT !.inbox = stream'.inbox]
         /\ stream'.inbox \in Seq([msg: Messages, part: {"whole", "head", "tail"}])
         /\ 1 \in 1..Len(stream.inbox) /\ stream.inbox[1].part # "tail"
         /\ Message = stream.inbox[1].msg /\ Message \in Messages
         /\ \E k \in 1..2 : /\ k = 2 => stream.inbox[1].part = "head"
                            /\ Len(stream'.inbox) = Len(stream.inbox) - k
                            /\ \A i \in 1..Len(stream'.inbox) :
                                 /\ i + k \in 1..Len(stream.inbox)
                                 /\ stream'.inbox[i] = stream.inbox[i + k]
<1> DEFINE s == stream.inbox
           Pieces == [msg: Messages, part: {"whole", "head", "tail"}]
<1>1. s \in Seq(Pieces) /\ s # << >>
  BY DEF TypeOK, ReadMessage, Complete
<1>2. stream' = [stream EXCEPT !.inbox = IF Head(s).part = "whole" THEN Tail(s) ELSE Tail(Tail(s))]
  BY DEF ReadMessage
<1>3. stream'.inbox = (IF Head(s).part = "whole" THEN Tail(s) ELSE Tail(Tail(s)))
  BY <1>2 DEF TypeOK
<1>4. Head(s).part = "whole" \/ (Head(s).part = "head" /\ Len(s) > 1)
  BY DEF ReadMessage, Complete
<1>5. stream' = [stream EXCEPT !.inbox = stream'.inbox]
  BY <1>2, <1>3
<1> HIDE DEF s
<1>6. /\ Head(s) = s[1] /\ 1 \in 1..Len(s) /\ Len(s) \in Nat
      /\ Tail(s) \in Seq(Pieces) /\ Len(Tail(s)) = Len(s) - 1
      /\ \A i \in 1..Len(Tail(s)) : i + 1 \in 1..Len(s) /\ Tail(s)[i] = s[i + 1]
  BY <1>1
<1>7. ASSUME Len(s) > 1
      PROVE  /\ Tail(Tail(s)) \in Seq(Pieces) /\ Len(Tail(Tail(s))) = Len(s) - 2
             /\ \A i \in 1..Len(Tail(Tail(s))) : i + 2 \in 1..Len(s) /\ Tail(Tail(s))[i] = s[i + 2]
  BY <1>1, <1>6, <1>7
<1>0. Message = s[1].msg /\ Message \in Messages
  <2>1. s[1] \in Pieces
    <3> HIDE DEF Pieces
    <3> QED
      BY <1>1, <1>6
  <2>2. s[1].msg \in Messages
    BY <2>1
  <2>3. Message = Head(s).msg
    BY DEF s, Message
  <2> QED
    BY <1>6, <2>2, <2>3
<1>8. CASE Head(s).part = "whole"
  BY <1>0, <1>1, <1>3, <1>5, <1>6, <1>8 DEF s
<1>9. CASE Head(s).part = "head" /\ Len(s) > 1
  <2>1. stream'.inbox = Tail(Tail(s)) /\ s[1].part = "head"
    BY <1>3, <1>6, <1>9
  <2>2. /\ stream'.inbox \in Seq(Pieces) /\ Len(stream'.inbox) = Len(s) - 2
        /\ \A i \in 1..Len(stream'.inbox) : i + 2 \in 1..Len(s) /\ stream'.inbox[i] = s[i + 2]
    BY <1>7, <1>9, <2>1
  <2> HIDE DEF Pieces
  <2>3. \E k \in 1..2 : /\ k = 2 => s[1].part = "head"
                       /\ Len(stream'.inbox) = Len(s) - k
                       /\ \A i \in 1..Len(stream'.inbox) :
                            /\ i + k \in 1..Len(s)
                            /\ stream'.inbox[i] = s[i + k]
    <3>1. 2 \in 1..2
      OBVIOUS
    <3> QED
      BY <2>1, <2>2, <3>1
  <2> QED
    BY <1>0, <1>1, <1>5, <1>6, <2>1, <2>2, <2>3 DEF s, Pieces
<1> QED
  BY <1>4, <1>8, <1>9

\* The results that are left were there before.
LEMMA Left ==
  ASSUME TypeOK, ReadMessage
  PROVE  \E k \in 1..2 : \A i \in Results(stream'.inbox) :
           /\ i + k \in Results(stream.inbox) /\ i + k # 1
           /\ stream'.inbox[i] = stream.inbox[i + k]
<1>1. PICK k \in 1..2 : /\ Len(stream'.inbox) = Len(stream.inbox) - k
                       /\ \A i \in 1..Len(stream'.inbox) :
                            /\ i + k \in 1..Len(stream.inbox)
                            /\ stream'.inbox[i] = stream.inbox[i + k]
  BY Reads
<1> QED
  BY <1>1 DEF Results

\* The steps that run no task and read nothing.
Moves == Test \/ SelectTimeout \/ SelectStops \/ ReadEnd \/ Crash \/ SendKilled \/ Drained

\* They leave the queue and everything else as it is.
LEMMA MovesLoop ==
  ASSUME TypeOK, Moves
  PROVE  /\ loop' \in Loop(Tags, Places) /\ loop'.queue = loop.queue
         /\ UNCHANGED <<m, proto, asking, stream>>
  BY DEF TypeOK, Places, Moves, Test, SelectTimeout, SelectStops, ReadEnd, Crash,
     SendKilled, Drained, Loop, Goto, dispatch, stop, drained

\* A turn that has read a message goes on to the tasks.
LEMMA Dispatches ==
  ASSUME TypeOK
  PROVE  /\ dispatch(loop, FALSE) \in Loop(Tags, Places)
         /\ dispatch(loop, FALSE).queue = loop.queue
  BY DEF TypeOK, Places, Loop, Goto, dispatch

\* A request that is posted, and one that is sent.
LEMMA Posted ==
  ASSUME TypeOK, NEW tag \in Tags
  PROVE  /\ post(loop, tag) \in Loop(Tags, Places)
         /\ post(loop, tag).queue = Append(loop.queue, tag)
<1>1. loop \in Loop(Tags, Places) /\ loop \in Loop(Tags, Places \cup {"locking"})
      /\ loop.pc # "asleep"
  BY DEF TypeOK, Loop, Places
<1>2. /\ post(loop, tag) \in Loop(Tags, Places \cup {"locking"})
      /\ post(loop, tag).queue = Append(loop.queue, tag)
      /\ post(loop, tag).pc = loop.pc
  BY <1>1, PostMoves
<1> QED
  BY <1>1, <1>2 DEF Loop

\* The task at the head of the queue is taken.
LEMMA Taken ==
  ASSUME TypeOK, SendTask
  PROVE  /\ loop' \in Loop(Tags, Places)
         /\ loop.queue \in Seq(Tags) /\ loop.queue # << >>
         /\ loop'.queue = Tail(loop.queue) /\ Head(loop.queue) \in Tags
<1>1. /\ loop \in Loop(Tags, Places) /\ "drain" \in Places
      /\ loop.queue # << >> /\ loop' = pop(loop)
  BY DEF TypeOK, Places, SendTask
<1>2. loop.queue \in Seq(Tags)
  BY <1>1 DEF Loop
<1> QED
  BY <1>1, <1>2, PopMoves

\* What usbmuxd sends is put at the end of what has arrived.
LEMMA Arrives ==
  ASSUME TypeOK, NEW s, NEW msg \in Messages, stream' \in Sent(s, msg),
         s \in [inbox: Seq([msg: Messages, part: {"whole", "head", "tail"}]),
                rest: BOOLEAN, requests: SUBSET Tags, ended: BOOLEAN, lost: BOOLEAN]
  PROVE  /\ stream' \in [inbox: Seq([msg: Messages, part: {"whole", "head", "tail"}]),
                         rest: BOOLEAN, requests: SUBSET Tags, ended: BOOLEAN, lost: BOOLEAN]
         /\ stream'.requests = s.requests /\ stream'.ended = s.ended /\ stream'.lost = s.lost
         /\ \E part \in {"whole", "head"} : /\ stream'.inbox = Append(s.inbox, Piece(msg, part))
                                            /\ stream'.rest <=> part = "head"
<1>1. PICK part \in {"whole", "head"} :
        stream' = [s EXCEPT !.inbox = Append(s.inbox, Piece(msg, part)), !.rest = (part = "head")]
  BY DEF Sent
<1>2. Piece(msg, part) \in [msg: Messages, part: {"whole", "head", "tail"}]
  BY DEF Piece
<1>3. Append(s.inbox, Piece(msg, part)) \in Seq([msg: Messages, part: {"whole", "head", "tail"}])
  BY <1>2
<1> QED
  BY <1>1, <1>3

\* No step takes a variable out of its range.
LEMMA StepTyped == TypeOK /\ [Next]_vars => TypeOK'
<1> SUFFICES ASSUME TypeOK, [Next]_vars PROVE TypeOK'
  OBVIOUS
<1> DEFINE Streams == [inbox: Seq([msg: Messages, part: {"whole", "head", "tail"}]),
                       rest: BOOLEAN, requests: SUBSET Tags, ended: BOOLEAN, lost: BOOLEAN]
<1> SUFFICES /\ m' \in Machine /\ loop' \in Loop(Tags, Places)
             /\ proto' \in [tag: Tags, headers: SUBSET Tags, handlers: SUBSET Tags]
             /\ asking' \subseteq Tags /\ stream' \in Streams
             /\ devices' \subseteq Devices /\ reported' \subseteq Devices
             /\ listening' \in BOOLEAN /\ reports' \in 0..MaxReports
  BY DEF TypeOK, Places
<1>0. /\ m \in Machine /\ loop \in Loop(Tags, Places)
      /\ proto \in [tag: Tags, headers: SUBSET Tags, handlers: SUBSET Tags]
      /\ asking \subseteq Tags /\ stream \in Streams
      /\ devices \subseteq Devices /\ reported \subseteq Devices
      /\ listening \in BOOLEAN /\ reports \in 0..MaxReports
  BY DEF TypeOK, Places
<1> USE DEF Usbmuxd
<1>1. CASE startListenDevice
  <2>1. proto.tag \in Tags /\ proto.tag + 1 \in Tags
    BY <1>0, <1>1, BoundAssumption DEF startListenDevice, Tags
  <2> HIDE DEF Streams
  <2> QED
    BY <1>0, <1>1, <2>1 DEF startListenDevice, makeListenRequestWithHandler
<1>2. CASE Posts
  <2>1. PICK tag \in asking : loop' = post(loop, tag) /\ asking' = asking \ {tag}
    BY <1>2 DEF Posts, PostRequest
  <2>2. loop' \in Loop(Tags, Places)
    BY <1>0, <2>1, Posted
  <2> HIDE DEF Streams
  <2> QED
    BY <1>0, <1>2, <2>1, <2>2 DEF Posts, PostRequest
<1>3. CASE CallStop
  <2> HIDE DEF Streams
  <2> QED
    BY <1>0, <1>3 DEF CallStop, stop, Loop
<1>4. ASSUME NEW ok \in BOOLEAN, Answers(ok) PROVE stream' \in Streams /\ listening' \in BOOLEAN
  <2>1. PICK tag \in stream.requests :
          stream' \in Sent([stream EXCEPT !.requests = @ \ {tag}], Result(tag, ok))
    BY <1>4 DEF Answers
  <2>2. tag \in Tags /\ Result(tag, ok) \in Messages
    BY <1>0, <2>1 DEF Messages
  <2>3. [stream EXCEPT !.requests = @ \ {tag}] \in Streams
    BY <1>0
  <2> QED
    BY <1>0, <1>4, <2>1, <2>2, <2>3, Arrives DEF Answers
<1>5. ASSUME NEW d \in Devices, Reports(d) PROVE stream' \in Streams
  <2>1. DeviceRecord(IF d \in reported THEN "Detached" ELSE "Attached", d) \in Messages
    BY DEF Messages
  <2> QED
    BY <1>0, <1>5, <2>1, Arrives DEF Reports
<1>6. CASE Daemon
  <2>1. CASE \E ok \in BOOLEAN : Answers(ok)
    BY <1>0, <1>4, <2>1 DEF Answers
  <2>2. CASE \E d \in Devices : Reports(d)
    <3>1. PICK d \in Devices : Reports(d)
      BY <2>2
    <3>2. reports' \in 0..MaxReports /\ reported' \subseteq Devices
      BY <1>0, <3>1, BoundAssumption DEF Reports, SymDiff
    <3> QED
      BY <1>0, <1>5, <3>1, <3>2 DEF Reports
  <2>3. CASE Stream
    <3>1. Piece([kind |-> "rest"], "tail") \in [msg: Messages, part: {"whole", "head", "tail"}]
      BY DEF Piece, Messages
    <3>2. Append(stream.inbox, Piece([kind |-> "rest"], "tail"))
            \in Seq([msg: Messages, part: {"whole", "head", "tail"}])
      BY <1>0, <3>1
    <3>3. stream' \in Streams
      BY <1>0, <2>3, <3>2 DEF Stream, RestArrives, Ends
    <3> QED
      BY <1>0, <2>3, <3>3 DEF Stream, RestArrives, Ends
  <2> QED
    BY <1>6, <2>1, <2>2, <2>3 DEF Daemon
<1>7. CASE ClientThread /\ UNCHANGED <<devices, Usbmuxd>>
  <2>1. CASE Moves
    BY <1>0, <1>7, <2>1, MovesLoop
  <2>2. CASE Misread
    <3>1. stream' \in Streams
      <4>1. << >> \in Seq([msg: Messages, part: {"whole", "head", "tail"}])
        OBVIOUS
      <4>2. stream' = [[stream EXCEPT !.inbox = << >>] EXCEPT !.lost = TRUE]
        BY <2>2 DEF Misread
      <4> QED
        BY <1>0, <4>1, <4>2
    <3> QED
      BY <1>0, <1>7, <2>2, <3>1, Dispatches DEF Misread
  <2>3. CASE SendTask
    <3>1. stream' \in Streams
      BY <1>0, <2>3, Taken DEF SendTask
    <3> QED
      BY <1>0, <1>7, <2>3, <3>1, Taken DEF SendTask
  <2> QED
    BY <1>7, <2>1, <2>2, <2>3 DEF ClientThread, Turn, Moves
<1>8. CASE ReceiveResult
  <2>1. stream' \in Streams
    BY <1>0, <1>8, Reads DEF ReceiveResult
  <2>2. m' \in Machine
    BY <1>0, <1>8, MachineTyped DEF ReceiveResult
  <2>3. proto' \in [tag: Tags, headers: SUBSET Tags, handlers: SUBSET Tags]
    BY <1>0, <1>8 DEF ReceiveResult, parseResultMessage
  <2> QED
    BY <1>0, <1>8, <2>1, <2>2, <2>3, Dispatches DEF ReceiveResult
<1>9. CASE ReceiveRecord
  <2>1. stream' \in Streams
    BY <1>0, <1>9, Reads DEF ReceiveRecord
  <2>2. Message \in Messages
    BY <1>0, <1>9, Reads DEF ReceiveRecord
  <2>3. devices' \subseteq Devices
    BY <1>0, <1>9, <2>2 DEF ReceiveRecord, Kept, Messages, Result, DeviceRecord
  <2> QED
    BY <1>0, <1>9, <2>1, <2>3, Dispatches DEF ReceiveRecord
<1>10. CASE UNCHANGED vars
  BY <1>0, <1>10 DEF vars
<1> QED
  BY <1>1, <1>2, <1>3, <1>6, <1>7, <1>8, <1>9, <1>10 DEF Next, LoopThread

\* A tag that is registered is smaller than the next one.
LEMMA StepFresh == TypeOK /\ Fresh /\ [Next]_vars => Fresh'
<1> SUFFICES ASSUME TypeOK, Fresh, [Next]_vars PROVE Fresh'
  OBVIOUS
<1>0. proto \in [tag: Nat, headers: SUBSET Nat, handlers: SUBSET Nat]
  <2>1. Tags \subseteq Nat
    BY BoundAssumption DEF Tags
  <2> QED
    BY <2>1 DEF TypeOK
<1>1. CASE startListenDevice
  BY <1>0, <1>1 DEF startListenDevice, makeListenRequestWithHandler, Fresh
<1>2. CASE ReceiveResult
  BY <1>0, <1>2 DEF ReceiveResult, parseResultMessage, Fresh
<1>3. CASE UNCHANGED proto
  BY <1>3 DEF Fresh
<1> QED
  BY <1>1, <1>2, <1>3, MovesLoop DEF Next, vars, Posts, PostRequest, CallStop, Daemon, Answers,
     Reports, Stream, RestArrives, Ends, LoopThread, ClientThread, Turn, Moves, Misread, SendTask,
     ReceiveRecord

\* Results that are read, or lost, leave the others where they were, but for a
\* shift.
LEMMA Shifted ==
  ASSUME NEW p, NEW asked, NEW queue, NEW sent, NEW old \in Inboxes, NEW new \in Inboxes,
         Known(p, asked, queue, sent, old), Once(asked, queue, sent, old), NEW k \in Nat,
         \A i \in Results(new) : i + k \in Results(old) /\ new[i] = old[i + k]
  PROVE  Known(p, asked, queue, sent, new) /\ Once(asked, queue, sent, new)
<1>1. Results(new) \subseteq Int
  BY DEF Results, Inboxes
<1>2. \A i, j \in Results(new) : new[i].msg.tag = new[j].msg.tag => i = j
  BY <1>1 DEF Once
<1> QED
  BY <1>2 DEF Known, Once

\* A piece that is not a result changes nothing.
LEMMA NoResult ==
  ASSUME NEW p, NEW asked, NEW queue, NEW sent, NEW old \in Inboxes,
         NEW piece \in [msg: Messages, part: {"whole", "head", "tail"}],
         piece.part = "tail" \/ piece.msg.kind # "Result",
         Known(p, asked, queue, sent, old), Once(asked, queue, sent, old)
  PROVE  /\ Known(p, asked, queue, sent, Append(old, piece))
         /\ Once(asked, queue, sent, Append(old, piece))
<1> DEFINE new == Append(old, piece)
<1>1. new \in Inboxes /\ Len(new) = Len(old) + 1 /\ Len(old) \in Nat
      /\ new[Len(old) + 1] = piece /\ \A i \in 1..Len(old) : new[i] = old[i]
  <2> DEFINE Pieces == [msg: Messages, part: {"whole", "head", "tail"}]
  <2>1. old \in Seq(Pieces) /\ piece \in Pieces
    BY DEF Inboxes
  <2> HIDE DEF Pieces
  <2>2. new \in Seq(Pieces) /\ Len(new) = Len(old) + 1 /\ Len(old) \in Nat
        /\ new[Len(old) + 1] = piece /\ \A i \in 1..Len(old) : new[i] = old[i]
    BY <2>1
  <2> QED
    BY <2>2 DEF Pieces, Inboxes
<1> HIDE DEF new
<1>2. \A i \in Results(new) : i + 0 \in Results(old) /\ new[i] = old[i + 0]
  BY <1>1 DEF Results
<1>3. 0 \in Nat
  OBVIOUS
<1>4. Known(p, asked, queue, sent, new) /\ Once(asked, queue, sent, new)
  BY <1>1, <1>2, <1>3, Shifted
<1> QED
  BY <1>4 DEF new

\* An answer takes the tag of its request from usbmuxd to the stream.
LEMMA OneResult ==
  ASSUME NEW p, NEW asked, NEW queue, NEW sent, NEW old \in Inboxes, NEW tag \in sent,
         NEW piece \in [msg: Messages, part: {"whole", "head", "tail"}],
         piece.msg.tag = tag,
         Known(p, asked, queue, sent, old), Once(asked, queue, sent, old)
  PROVE  /\ Known(p, asked, queue, sent \ {tag}, Append(old, piece))
         /\ Once(asked, queue, sent \ {tag}, Append(old, piece))
<1> DEFINE new == Append(old, piece)
<1>1. Len(new) = Len(old) + 1 /\ Len(old) \in Nat
      /\ new[Len(old) + 1] = piece /\ \A i \in 1..Len(old) : new[i] = old[i]
  <2> DEFINE Pieces == [msg: Messages, part: {"whole", "head", "tail"}]
  <2>1. old \in Seq(Pieces) /\ piece \in Pieces
    BY DEF Inboxes
  <2> HIDE DEF Pieces
  <2> QED
    BY <2>1
<1> HIDE DEF new
<1>2. \A i \in Results(new) : \/ i = Len(old) + 1 /\ new[i].msg.tag = tag
                              \/ i \in Results(old) /\ new[i] = old[i]
  BY <1>1 DEF Results
<1>3. /\ tag \in p.headers \cap p.handlers /\ tag \notin asked
      /\ \A i \in 1..Len(queue) : queue[i] # tag
      /\ \A i \in Results(old) : old[i].msg.tag # tag
  BY DEF Known, Once
<1>4. \A i, j \in Results(new) : new[i].msg.tag = new[j].msg.tag => i = j
  BY <1>2, <1>3 DEF Once
<1>5. /\ \A i \in Results(new) : new[i].msg.tag \notin asked \cup (sent \ {tag})
      /\ \A i \in 1..Len(queue), j \in Results(new) : queue[i] # new[j].msg.tag
  BY <1>2, <1>3 DEF Once
<1>6. Once(asked, queue, sent \ {tag}, new)
  BY <1>4, <1>5 DEF Once
<1>7. Known(p, asked, queue, sent \ {tag}, new)
  BY <1>2, <1>3 DEF Known
<1> QED
  BY <1>6, <1>7 DEF new

\* No step loses a tag that is on its way, or has it in two places.
LEMMA StepUnderway == IInv /\ [Next]_vars => Underway'
<1> SUFFICES ASSUME IInv, [Next]_vars PROVE Underway'
  OBVIOUS
<1>0. /\ TypeOK /\ Fresh /\ Known(proto, asking, loop.queue, stream.requests, stream.inbox)
      /\ Once(asking, loop.queue, stream.requests, stream.inbox)
  BY DEF IInv, Underway
<1>a. stream.inbox \in Inboxes /\ loop.queue \in Seq(Tags) /\ Tags \subseteq Nat
  BY <1>0, BoundAssumption DEF TypeOK, Loop, Inboxes, Tags
<1>1. CASE startListenDevice
  <2>1. /\ proto.tag \notin proto.headers \cap proto.handlers
    <3>1. proto.tag \in Nat
      BY <1>0, <1>a DEF TypeOK
    <3> QED
      BY <1>0, <3>1 DEF Fresh
  <2>2. /\ proto.headers \cap proto.handlers \subseteq proto'.headers \cap proto'.handlers
        /\ proto.tag \in proto'.headers \cap proto'.handlers
    BY <1>0, <1>1 DEF startListenDevice, makeListenRequestWithHandler, TypeOK
  <2>3. asking = {} /\ asking' = {proto.tag} /\ UNCHANGED <<loop, stream>>
    BY <1>1 DEF startListenDevice
  <2>4. Known(proto', asking', loop.queue, stream.requests, stream.inbox)
    BY <1>0, <2>2, <2>3 DEF Known
  <2>5. Once(asking', loop.queue, stream.requests, stream.inbox)
    BY <1>0, <2>1, <2>3 DEF Known, Once
  <2> QED
    BY <2>3, <2>4, <2>5 DEF Underway
<1>2. CASE Posts
  <2>1. PICK tag \in asking : loop' = post(loop, tag) /\ asking' = asking \ {tag}
    BY <1>2 DEF Posts, PostRequest
  <2>2. UNCHANGED <<proto, stream>> /\ tag \in Tags
    BY <1>0, <1>2, <2>1 DEF Posts, PostRequest, TypeOK
  <2>3. loop'.queue = Append(loop.queue, tag)
    BY <1>0, <2>1, <2>2, Posted
  <2>4. /\ Len(loop'.queue) = Len(loop.queue) + 1 /\ Len(loop.queue) \in Nat
        /\ loop'.queue[Len(loop.queue) + 1] = tag
        /\ \A i \in 1..Len(loop.queue) : loop'.queue[i] = loop.queue[i]
    BY <1>a, <2>2, <2>3
  <2>5. \A i \in 1..Len(loop'.queue) :
          \/ i = Len(loop.queue) + 1 /\ loop'.queue[i] = tag
          \/ i \in 1..Len(loop.queue) /\ loop'.queue[i] = loop.queue[i]
    BY <2>4
  <2>6. /\ tag \in proto.headers \cap proto.handlers /\ tag \notin stream.requests
        /\ \A i \in 1..Len(loop.queue) : loop.queue[i] # tag
        /\ \A i \in Results(stream.inbox) : stream.inbox[i].msg.tag # tag
    BY <1>0 DEF Known, Once
  <2>7. Known(proto, asking', loop'.queue, stream.requests, stream.inbox)
    BY <1>0, <2>1, <2>5, <2>6 DEF Known
  <2>8. \A i, j \in 1..Len(loop'.queue) : loop'.queue[i] = loop'.queue[j] => i = j
    BY <1>0, <2>5, <2>6 DEF Once
  <2>9. Once(asking', loop'.queue, stream.requests, stream.inbox)
    BY <1>0, <2>1, <2>5, <2>6, <2>8 DEF Once
  <2> QED
    BY <2>2, <2>7, <2>9 DEF Underway
<1>3. CASE CallStop
  <2>1. loop'.queue = loop.queue /\ UNCHANGED <<proto, asking, stream>>
    BY <1>0, <1>3 DEF CallStop, stop, TypeOK, Loop
  <2> QED
    BY <1>0, <2>1 DEF Underway
<1>4. ASSUME NEW ok \in BOOLEAN, Answers(ok) PROVE Underway'
  <2>1. PICK tag \in stream.requests :
          stream' \in Sent([stream EXCEPT !.requests = @ \ {tag}], Result(tag, ok))
    BY <1>4 DEF Answers
  <2> DEFINE s == [stream EXCEPT !.requests = @ \ {tag}]
  <2>2. tag \in Tags /\ Result(tag, ok) \in Messages
    BY <1>0, <2>1 DEF Messages, TypeOK
  <2>3. /\ s \in [inbox: Seq([msg: Messages, part: {"whole", "head", "tail"}]),
                 rest: BOOLEAN, requests: SUBSET Tags, ended: BOOLEAN, lost: BOOLEAN]
        /\ s.inbox = stream.inbox /\ s.requests = stream.requests \ {tag}
    BY <1>0 DEF TypeOK
  <2>4. stream' \in Sent(s, Result(tag, ok))
    BY <2>1
  <2> HIDE DEF s
  <2>5. PICK part \in {"whole", "head"} :
          stream'.inbox = Append(stream.inbox, Piece(Result(tag, ok), part))
    BY <1>0, <2>2, <2>3, <2>4, Arrives
  <2>6. stream'.requests = stream.requests \ {tag}
    BY <1>0, <2>2, <2>3, <2>4, Arrives
  <2>7. /\ Piece(Result(tag, ok), part) \in [msg: Messages, part: {"whole", "head", "tail"}]
        /\ Piece(Result(tag, ok), part).msg.tag = tag
    BY <2>2 DEF Piece, Result
  <2>8. /\ Known(proto, asking, loop.queue, stream'.requests, stream'.inbox)
        /\ Once(asking, loop.queue, stream'.requests, stream'.inbox)
    BY <1>0, <1>a, <2>5, <2>6, <2>7, OneResult
  <2> QED
    BY <1>4, <2>8 DEF Answers, Underway
<1>5. ASSUME NEW d \in Devices, Reports(d) PROVE Underway'
  <2> DEFINE record == DeviceRecord(IF d \in reported THEN "Detached" ELSE "Attached", d)
  <2>1. record \in Messages /\ record.kind # "Result"
    BY DEF Messages, DeviceRecord
  <2>2. stream' \in Sent(stream, record)
    BY <1>5 DEF Reports
  <2> HIDE DEF record
  <2>3. PICK part \in {"whole", "head"} : stream'.inbox = Append(stream.inbox, Piece(record, part))
    BY <1>0, <2>1, <2>2, Arrives DEF TypeOK
  <2>4. stream'.requests = stream.requests
    BY <1>0, <2>1, <2>2, Arrives DEF TypeOK
  <2>5. /\ Piece(record, part) \in [msg: Messages, part: {"whole", "head", "tail"}]
        /\ Piece(record, part).msg.kind # "Result"
    BY <2>1 DEF Piece
  <2>6. /\ Known(proto, asking, loop.queue, stream.requests, stream'.inbox)
        /\ Once(asking, loop.queue, stream.requests, stream'.inbox)
    BY <1>0, <1>a, <2>3, <2>5, NoResult
  <2> QED
    BY <1>5, <2>4, <2>6 DEF Reports, Underway
<1>6. CASE Stream
  <2>1. CASE RestArrives
    <3> DEFINE rest == Piece([kind |-> "rest"], "tail")
    <3>1. /\ rest \in [msg: Messages, part: {"whole", "head", "tail"}] /\ rest.part = "tail"
      BY DEF Piece, Messages
    <3>2. stream'.inbox = Append(stream.inbox, rest) /\ stream'.requests = stream.requests
      BY <1>0, <2>1 DEF RestArrives, TypeOK
    <3> HIDE DEF rest
    <3>3. /\ Known(proto, asking, loop.queue, stream.requests, stream'.inbox)
          /\ Once(asking, loop.queue, stream.requests, stream'.inbox)
      BY <1>0, <1>a, <3>1, <3>2, NoResult
    <3> QED
      BY <2>1, <3>2, <3>3 DEF RestArrives, Underway
  <2>2. CASE Ends
    <3>1. /\ stream'.inbox = stream.inbox /\ stream'.requests = stream.requests
          /\ UNCHANGED <<proto, asking, loop>>
      BY <1>0, <2>2 DEF Ends, TypeOK
    <3> QED
      BY <1>0, <3>1 DEF Underway
  <2> QED
    BY <1>6, <2>1, <2>2 DEF Stream
<1>7. CASE Moves
  BY <1>0, <1>7, MovesLoop DEF Underway
<1>8. CASE Misread
  <2>1. /\ stream'.inbox = << >> /\ stream'.requests = stream.requests
        /\ loop'.queue = loop.queue /\ UNCHANGED <<proto, asking>>
    BY <1>0, <1>8, Dispatches DEF Misread, TypeOK
  <2>2. Results(<< >>) = {}
    BY DEF Results
  <2> QED
    BY <1>0, <2>1, <2>2 DEF Underway, Known, Once
<1>9. CASE SendTask
  <2> DEFINE tag == Head(loop.queue)
  <2>1. /\ loop.queue # << >> /\ loop'.queue = Tail(loop.queue) /\ tag \in Tags
    BY <1>0, <1>9, Taken
  <2>2. /\ Len(loop.queue) \in Nat /\ 1 \in 1..Len(loop.queue) /\ tag = loop.queue[1]
        /\ \A i \in 1..Len(loop'.queue) : /\ i \in Int /\ i + 1 # 1
                                          /\ i + 1 \in 1..Len(loop.queue)
                                          /\ loop'.queue[i] = loop.queue[i + 1]
    BY <1>a, <2>1
  <2>3. /\ stream'.requests \subseteq stream.requests \cup {tag}
        /\ stream'.inbox = stream.inbox /\ UNCHANGED <<proto, asking>>
    BY <1>0, <1>9 DEF SendTask, TypeOK
  <2> HIDE DEF tag
  <2>4. /\ tag \in proto.headers \cap proto.handlers /\ tag \notin asking
        /\ \A i \in Results(stream.inbox) : stream.inbox[i].msg.tag # tag
    BY <1>0, <2>2 DEF Known, Once
  <2>5. \A i \in 1..Len(loop'.queue) : loop'.queue[i] # tag
    BY <1>0, <2>2 DEF Once
  <2>6. \A i, j \in 1..Len(loop'.queue) : loop'.queue[i] = loop'.queue[j] => i = j
    BY <1>0, <2>2 DEF Once
  <2>7. Known(proto, asking, loop'.queue, stream'.requests, stream.inbox)
    BY <1>0, <2>2, <2>3, <2>4 DEF Known
  <2>8. Once(asking, loop'.queue, stream'.requests, stream.inbox)
    BY <1>0, <2>2, <2>3, <2>4, <2>5, <2>6 DEF Once
  <2> QED
    BY <2>3, <2>7, <2>8 DEF Underway
<1>10. CASE ReceiveResult
  <2> DEFINE tag == Message.tag
  <2>1. ReadMessage /\ Message.kind = "Result" /\ proto' = parseResultMessage(proto, tag)
    BY <1>10 DEF ReceiveResult
  <2>2. /\ loop'.queue = loop.queue /\ UNCHANGED asking /\ stream'.requests = stream.requests
    BY <1>0, <1>10, <2>1, Dispatches, Reads DEF ReceiveResult, TypeOK
  <2>3. 1 \in Results(stream.inbox) /\ tag = stream.inbox[1].msg.tag
    BY <1>0, <2>1, Reads DEF Results
  <2>4. PICK k \in 1..2 : \A i \in Results(stream'.inbox) :
           /\ i + k \in Results(stream.inbox) /\ i + k # 1
           /\ stream'.inbox[i] = stream.inbox[i + k]
    BY <1>0, <2>1, Left
  <2>5. k \in Nat /\ stream'.inbox \in Inboxes
    BY <1>0, <2>1, Reads DEF Inboxes
  <2>6. /\ Known(proto, asking, loop.queue, stream.requests, stream'.inbox)
        /\ Once(asking, loop.queue, stream.requests, stream'.inbox)
    BY <1>0, <1>a, <2>4, <2>5, Shifted
  <2> HIDE DEF tag
  <2>7. /\ tag \notin asking \cup stream.requests
        /\ \A i \in 1..Len(loop.queue) : loop.queue[i] # tag
        /\ \A i \in Results(stream'.inbox) : stream'.inbox[i].msg.tag # tag
    BY <1>0, <2>3, <2>4 DEF Once
  <2>8. (proto.headers \cap proto.handlers) \ {tag} \subseteq proto'.headers \cap proto'.handlers
    BY <1>0, <2>1 DEF parseResultMessage, TypeOK
  <2>9. Known(proto', asking, loop.queue, stream.requests, stream'.inbox)
    BY <2>6, <2>7, <2>8 DEF Known
  <2> QED
    BY <2>2, <2>6, <2>9 DEF Underway
<1>11. CASE ReceiveRecord
  <2>1. ReadMessage /\ UNCHANGED <<proto, asking>> /\ loop'.queue = loop.queue
    BY <1>0, <1>11, Dispatches DEF ReceiveRecord
  <2>2. stream'.requests = stream.requests /\ stream'.inbox \in Inboxes
    BY <1>0, <2>1, Reads DEF TypeOK, Inboxes
  <2>3. PICK k \in 1..2 : \A i \in Results(stream'.inbox) :
           /\ i + k \in Results(stream.inbox) /\ i + k # 1
           /\ stream'.inbox[i] = stream.inbox[i + k]
    BY <1>0, <2>1, Left
  <2>4. k \in Nat
    OBVIOUS
  <2>5. /\ Known(proto, asking, loop.queue, stream.requests, stream'.inbox)
        /\ Once(asking, loop.queue, stream.requests, stream'.inbox)
    BY <1>0, <1>a, <2>2, <2>3, <2>4, Shifted
  <2> QED
    BY <2>1, <2>2, <2>5 DEF Underway
<1>12. CASE UNCHANGED vars
  BY <1>0, <1>12 DEF vars, Underway
<1> QED
  BY <1>1, <1>2, <1>3, <1>4, <1>5, <1>6, <1>7, <1>8, <1>9, <1>10, <1>11, <1>12
  DEF Next, Daemon, LoopThread, ClientThread, Turn, Moves

\* A piece that arrives is put at the end.
LEMMA Appended ==
  ASSUME NEW old \in Inboxes, NEW piece \in [msg: Messages, part: {"whole", "head", "tail"}]
  PROVE  /\ Append(old, piece) \in Inboxes
         /\ Len(old) \in Nat /\ Len(Append(old, piece)) = Len(old) + 1
         /\ Append(old, piece)[Len(old) + 1] = piece
         /\ \A i \in 1..Len(old) : Append(old, piece)[i] = old[i]
<1> DEFINE Pieces == [msg: Messages, part: {"whole", "head", "tail"}]
<1>1. old \in Seq(Pieces) /\ piece \in Pieces /\ Inboxes = Seq(Pieces)
  BY DEF Inboxes
<1> HIDE DEF Pieces
<1> QED
  BY <1>1

\* If it says nothing of a device, nothing changes for that device ...
LEMMA NoRecord ==
  ASSUME NEW old \in Inboxes, NEW known, NEW d,
         NEW piece \in [msg: Messages, part: {"whole", "head", "tail"}],
         \/ piece.part = "tail"
         \/ piece.msg.kind \notin {"Attached", "Detached"}
         \/ piece.msg.device # d
  PROVE  IsThere(known, Append(old, piece), d) <=> IsThere(known, old, d)
<1> DEFINE new == Append(old, piece)
<1>1. /\ Len(old) \in Nat /\ Len(new) = Len(old) + 1
      /\ new[Len(old) + 1] = piece /\ \A i \in 1..Len(old) : new[i] = old[i]
  BY Appended
<1> HIDE DEF new
<1>2. Records(new, d) = Records(old, d) /\ Records(old, d) \subseteq 1..Len(old)
  BY <1>1 DEF Records
<1>3. IsThere(known, new, d) <=> IsThere(known, old, d)
  BY <1>1, <1>2 DEF IsThere
<1> QED
  BY <1>3 DEF new

\* ... and otherwise it has the last word.
LEMMA OneRecord ==
  ASSUME NEW old \in Inboxes, NEW known, NEW d,
         NEW piece \in [msg: Messages, part: {"whole", "head", "tail"}],
         piece.part # "tail", piece.msg.kind \in {"Attached", "Detached"}, piece.msg.device = d
  PROVE  IsThere(known, Append(old, piece), d) <=> piece.msg.kind = "Attached"
<1> DEFINE new == Append(old, piece)
           last == Len(old) + 1
<1>1. /\ Len(old) \in Nat /\ Len(new) = last
      /\ new[last] = piece /\ \A i \in 1..Len(old) : new[i] = old[i]
  BY Appended
<1> HIDE DEF new
<1>2. last \in Records(new, d) /\ \A i \in Records(new, d) : i \in Nat /\ i <= last
  BY <1>1 DEF Records
<1>3. \A i \in Records(new, d) : (\A j \in Records(new, d) : j <= i) => i = last
  BY <1>1, <1>2
<1> HIDE DEF last
<1>4. IsThere(known, new, d) <=> piece.msg.kind = "Attached"
  BY <1>1, <1>2, <1>3 DEF IsThere
<1> QED
  BY <1>4 DEF new

\* A message is read from the front: a map that has kept it, and the records that are
\* left, say what the map before and all of them said.
LEMMA FirstRecord ==
  ASSUME NEW old \in Inboxes, NEW new \in Inboxes, NEW k \in 1..2, NEW d, NEW known, NEW next,
         Len(new) = Len(old) - k, old # << >>,
         \A i \in 1..Len(new) : i + k \in 1..Len(old) /\ new[i] = old[i + k],
         k = 2 /\ 2 \in 1..Len(old) => old[2].part = "tail",
         d \in next <=> IF 1 \in Records(old, d) THEN old[1].msg.kind = "Attached" ELSE d \in known
  PROVE  IsThere(next, new, d) <=> IsThere(known, old, d)
<1>1. Len(old) \in Nat /\ Len(new) \in Nat /\ k \in Nat
  BY DEF Inboxes
<1>2. \A i : i \in Records(new, d) => i \in 1..Len(new) /\ i + k \in Records(old, d)
  BY <1>1 DEF Records
<1>3. \A j \in Records(old, d) : j \in 1..Len(old) /\ (j = 1 \/ j - k \in Records(new, d))
  <2> SUFFICES ASSUME NEW j \in Records(old, d), j # 1 PROVE j - k \in Records(new, d)
    BY DEF Records
  <2>1. j \in 1..Len(old) /\ old[j].part # "tail" 
    BY DEF Records
  <2>2. j > k /\ j - k \in 1..Len(new) /\ j = (j - k) + k
    BY <1>1, <2>1
  <2>3. new[j - k] = old[j]
    BY <2>2
  <2> QED
    BY <2>2, <2>3 DEF Records
<1>4. CASE Records(new, d) = {}
  <2>1. Records(old, d) \subseteq {1}
    BY <1>3, <1>4
  <2>2. CASE 1 \in Records(old, d)
    <3>1. Records(old, d) = {1}
      BY <2>1, <2>2
    <3> QED
      BY <1>4, <3>1 DEF IsThere
  <2>3. CASE 1 \notin Records(old, d)
    <3>1. Records(old, d) = {}
      BY <2>1, <2>3
    <3> QED
      BY <1>4, <2>3, <3>1 DEF IsThere
  <2> QED
    BY <2>2, <2>3
<1>5. CASE Records(new, d) # {}
  <2>0. Records(old, d) # {}
    BY <1>2, <1>5
  <2>1. ASSUME NEW last \in Records(new, d), \A i \in Records(new, d) : i <= last, 
               new[last].msg.kind = "Attached"
        PROVE  IsThere(known, old, d)
    <3>1. last + k \in Records(old, d) /\ last \in 1..Len(new)
      BY <1>2
    <3>2. \A j \in Records(old, d) : j <= last + k
      BY <1>1, <1>3, <2>1, <3>1
    <3>3. old[last + k] = new[last]
      BY <3>1
    <3> QED
      BY <2>0, <2>1, <3>1, <3>2, <3>3 DEF IsThere
  <2>2. ASSUME NEW last \in Records(old, d), \A i \in Records(old, d) : i <= last, 
               old[last].msg.kind = "Attached"
        PROVE  IsThere(next, new, d)
    <3>1. last # 1 /\ last \in 1..Len(old)
      BY <1>1, <1>2, <1>3, <1>5, <2>2
    <3>2. last - k \in Records(new, d) /\ last - k \in 1..Len(new)
      BY <1>2, <1>3, <3>1
    <3>3. \A i \in Records(new, d) : i <= last - k
      BY <1>1, <1>2, <2>2, <3>1
    <3>4. new[last - k] = old[last]
      <4>1. (last - k) + k = last
        BY <1>1, <3>1
      <4> QED
        BY <3>2, <4>1
    <3> QED
      BY <1>5, <2>2, <3>2, <3>3, <3>4 DEF IsThere
  <2> QED
    BY <1>5, <2>0, <2>1, <2>2 DEF IsThere
<1> QED
  BY <1>4, <1>5

\* No message is torn apart but by the end of the stream.
LEMMA StepPieced == IInv /\ [Next]_vars => Pieced'
<1> SUFFICES ASSUME IInv, [Next]_vars PROVE Pieced'
  OBVIOUS
<1>0. /\ TypeOK /\ Pieced /\ stream.inbox \in Inboxes
      /\ stream \in [inbox: Seq([msg: Messages, part: {"whole", "head", "tail"}]),
                     rest: BOOLEAN, requests: SUBSET Tags, ended: BOOLEAN, lost: BOOLEAN]
  BY DEF IInv, TypeOK, Inboxes
<1>1. ASSUME NEW piece \in [msg: Messages, part: {"whole", "head", "tail"}],
             stream'.inbox = Append(stream.inbox, piece),
             \A i \in 1..Len(stream.inbox) :
               i = Len(stream.inbox) /\ stream.inbox[i].part = "head" => piece.part = "tail",
             piece.part = "head" => stream'.rest
      PROVE  Pieced'
  BY <1>0, <1>1, Appended DEF Pieced
<1>2. ASSUME CanSend, NEW s, NEW msg \in Messages, stream' \in Sent(s, msg),
             s \in [inbox: Seq([msg: Messages, part: {"whole", "head", "tail"}]),
                    rest: BOOLEAN, requests: SUBSET Tags, ended: BOOLEAN, lost: BOOLEAN],
             s.inbox = stream.inbox
      PROVE  Pieced'
  <2>1. PICK part \in {"whole", "head"} : /\ stream'.inbox = Append(stream.inbox, Piece(msg, part))
                                          /\ stream'.rest <=> part = "head"
    BY <1>0, <1>2, Arrives
  <2>2. /\ Piece(msg, part) \in [msg: Messages, part: {"whole", "head", "tail"}]
        /\ Piece(msg, part).part = part
    BY DEF Piece
  <2>3. \A i \in 1..Len(stream.inbox) : i = Len(stream.inbox) => stream.inbox[i].part # "head"
    BY <1>0, <1>2 DEF Pieced, CanSend
  <2> QED
    BY <1>1, <2>1, <2>2, <2>3
<1>3. ASSUME NEW ok \in BOOLEAN, Answers(ok) PROVE Pieced'
  <2>1. PICK tag \in stream.requests :
          stream' \in Sent([stream EXCEPT !.requests = @ \ {tag}], Result(tag, ok))
    BY <1>3 DEF Answers
  <2>2. Result(tag, ok) \in Messages
    BY <1>0, <2>1 DEF Messages
  <2>3. /\ [stream EXCEPT !.requests = @ \ {tag}] \in
             [inbox: Seq([msg: Messages, part: {"whole", "head", "tail"}]),
              rest: BOOLEAN, requests: SUBSET Tags, ended: BOOLEAN, lost: BOOLEAN]
        /\ [stream EXCEPT !.requests = @ \ {tag}].inbox = stream.inbox
    BY <1>0
  <2> QED
    BY <1>2, <1>3, <2>1, <2>2, <2>3 DEF Answers
<1>4. ASSUME NEW d \in Devices, Reports(d) PROVE Pieced'
  <2>1. DeviceRecord(IF d \in reported THEN "Detached" ELSE "Attached", d) \in Messages
    BY DEF Messages
  <2> QED
    BY <1>0, <1>2, <1>4, <2>1 DEF Reports
<1>5. CASE RestArrives
  <2> DEFINE piece == Piece([kind |-> "rest"], "tail")
  <2>1. /\ piece \in [msg: Messages, part: {"whole", "head", "tail"}] /\ piece.part = "tail"
    BY DEF Piece, Messages
  <2>2. stream'.inbox = Append(stream.inbox, piece)
    BY <1>0, <1>5 DEF RestArrives
  <2> HIDE DEF piece
  <2> QED
    BY <1>1, <2>1, <2>2
<1>6. CASE Ends
  <2>1. stream'.inbox = stream.inbox /\ stream'.ended
    BY <1>0, <1>6 DEF Ends
  <2> QED
    BY <1>0, <2>1 DEF Pieced
<1>7. CASE ReadMessage
  <2>1. PICK k \in 1..2 : /\ Len(stream'.inbox) = Len(stream.inbox) - k
                         /\ \A i \in 1..Len(stream'.inbox) :
                              /\ i + k \in 1..Len(stream.inbox)
                              /\ stream'.inbox[i] = stream.inbox[i + k]
    BY <1>0, <1>7, Reads
  <2>2. /\ Len(stream.inbox) \in Nat /\ Len(stream'.inbox) \in Nat
        /\ stream'.rest = stream.rest /\ stream'.ended = stream.ended
    BY <1>0, <1>7, Reads DEF ReadMessage
  <2>3. ASSUME NEW i \in 1..Len(stream'.inbox), stream'.inbox[i].part = "head"
        PROVE  IF i = Len(stream'.inbox) THEN stream'.rest \/ stream'.ended
               ELSE stream'.inbox[i + 1].part = "tail"
    <3>1. /\ i + k \in 1..Len(stream.inbox) /\ stream.inbox[i + k].part = "head"
          /\ i = Len(stream'.inbox) <=> i + k = Len(stream.inbox)
      BY <2>1, <2>2, <2>3
    <3>2. CASE i = Len(stream'.inbox)
      BY <1>0, <2>2, <3>1, <3>2 DEF Pieced
    <3>3. CASE i # Len(stream'.inbox)
      <4>1. stream.inbox[i + k + 1].part = "tail"
        BY <1>0, <3>1, <3>3 DEF Pieced
      <4>2. i + 1 \in 1..Len(stream'.inbox) /\ (i + 1) + k = i + k + 1
        BY <2>2, <3>3
      <4>3. stream'.inbox[i + 1] = stream.inbox[(i + 1) + k]
        BY <2>1, <4>2
      <4> QED
        BY <3>3, <4>1, <4>2, <4>3
    <3> QED
      BY <3>2, <3>3
  <2> QED
    BY <2>3 DEF Pieced
<1>8. CASE Misread
  <2>1. stream'.inbox = << >>
    BY <1>0, <1>8 DEF Misread
  <2> QED
    BY <2>1 DEF Pieced
<1>9. CASE SendTask
  <2>1. UNCHANGED <<stream.inbox, stream.rest, stream.ended>>
    BY <1>0, <1>9 DEF SendTask
  <2> QED
    BY <1>0, <2>1 DEF Pieced
<1>10. CASE UNCHANGED stream
  BY <1>0, <1>10 DEF Pieced
<1> QED
  BY <1>0, <1>3, <1>4, <1>5, <1>6, <1>7, <1>8, <1>9, <1>10, MovesLoop DEF Next, vars, Moves,
     startListenDevice, Posts, PostRequest, CallStop, Daemon, Stream, LoopThread, ClientThread, Turn,
     ReceiveResult, ReceiveRecord

\* A report goes into the stream as it is made, and a record into the map as it leaves
\* the stream; nothing else touches either.
LEMMA StepMap == IInv /\ [Next]_vars => MapFollowsReports'
<1> SUFFICES ASSUME IInv, [Next]_vars PROVE MapFollowsReports'
  OBVIOUS
<1>b. reported' \subseteq Devices
  BY StepTyped DEF IInv, TypeOK
<1> SUFFICES ASSUME ~stream'.lost, NEW d \in Devices
             PROVE  d \in reported' <=> IsThere(devices', stream'.inbox, d)
  BY <1>b DEF MapFollowsReports
<1>0. /\ TypeOK /\ Pieced /\ stream.inbox \in Inboxes
      /\ stream \in [inbox: Seq([msg: Messages, part: {"whole", "head", "tail"}]),
                     rest: BOOLEAN, requests: SUBSET Tags, ended: BOOLEAN, lost: BOOLEAN]
  BY DEF IInv, TypeOK, Inboxes
<1>a. ~stream.lost => (d \in reported <=> IsThere(devices, stream.inbox, d))
  BY DEF IInv, MapFollowsReports
<1>1. ASSUME UNCHANGED <<devices, reported>>,
             NEW piece \in [msg: Messages, part: {"whole", "head", "tail"}],
             stream'.inbox = Append(stream.inbox, piece), stream'.lost = stream.lost,
             piece.part = "tail" \/ piece.msg.kind \notin {"Attached", "Detached"}
      PROVE  d \in reported' <=> IsThere(devices', stream'.inbox, d)
  BY <1>0, <1>a, <1>1, NoRecord
<1>2. ASSUME NEW ok \in BOOLEAN, Answers(ok)
      PROVE  d \in reported' <=> IsThere(devices', stream'.inbox, d)
  <2>1. PICK tag \in stream.requests :
          stream' \in Sent([stream EXCEPT !.requests = @ \ {tag}], Result(tag, ok))
    BY <1>2 DEF Answers
  <2> DEFINE s == [stream EXCEPT !.requests = @ \ {tag}]
  <2>2. Result(tag, ok) \in Messages /\ Result(tag, ok).kind = "Result"
    BY <1>0, <2>1 DEF Messages, Result
  <2>3. /\ s \in [inbox: Seq([msg: Messages, part: {"whole", "head", "tail"}]),
                  rest: BOOLEAN, requests: SUBSET Tags, ended: BOOLEAN, lost: BOOLEAN]
        /\ s.inbox = stream.inbox /\ s.lost = stream.lost
    BY <1>0
  <2>4. stream' \in Sent(s, Result(tag, ok))
    BY <2>1
  <2> HIDE DEF s
  <2>5. /\ stream'.lost = s.lost
        /\ \E part \in {"whole", "head"} :
             stream'.inbox = Append(s.inbox, Piece(Result(tag, ok), part))
    BY <1>0, <2>2, <2>3, <2>4, Arrives
  <2>6. PICK part \in {"whole", "head"} :
          stream'.inbox = Append(stream.inbox, Piece(Result(tag, ok), part))
    BY <2>3, <2>5
  <2>7. /\ Piece(Result(tag, ok), part) \in [msg: Messages, part: {"whole", "head", "tail"}]
        /\ Piece(Result(tag, ok), part).msg.kind = "Result"
    BY <2>2 DEF Piece
  <2> QED
    BY <1>1, <1>2, <2>3, <2>5, <2>6, <2>7 DEF Answers
<1>3. ASSUME NEW e \in Devices, Reports(e)
      PROVE  d \in reported' <=> IsThere(devices', stream'.inbox, d)
  <2> DEFINE kind == IF e \in reported THEN "Detached" ELSE "Attached"
             record == DeviceRecord(kind, e)
  <2>1. /\ record \in Messages /\ record.kind = kind /\ record.device = e
        /\ kind \in {"Attached", "Detached"} /\ (kind = "Attached" <=> e \notin reported)
    BY DEF Messages, DeviceRecord
  <2>2. stream' \in Sent(stream, record)
    BY <1>3 DEF Reports
  <2> HIDE DEF record, kind
  <2>3. PICK part \in {"whole", "head"} : stream'.inbox = Append(stream.inbox, Piece(record, part))
    BY <1>0, <2>1, <2>2, Arrives
  <2>4. stream'.lost = stream.lost
    BY <1>0, <2>1, <2>2, Arrives
  <2>5. /\ Piece(record, part) \in [msg: Messages, part: {"whole", "head", "tail"}]
        /\ Piece(record, part).msg = record /\ Piece(record, part).part # "tail"
    BY <2>1 DEF Piece
  <2>6. /\ UNCHANGED devices
        /\ d \in reported' <=> IF d = e THEN d \notin reported ELSE d \in reported
    BY <1>0, <1>3 DEF Reports, SymDiff
  <2>7. CASE d = e
    <3>1. \A piece \in [msg: Messages, part: {"whole", "head", "tail"}] :
            /\ piece.part # "tail" /\ piece.msg.kind \in {"Attached", "Detached"}
            /\ piece.msg.device = d
            => (IsThere(devices, Append(stream.inbox, piece), d) <=> piece.msg.kind = "Attached")
      BY <1>0, OneRecord
    <3>2. IsThere(devices, stream'.inbox, d) <=> record.kind = "Attached"
      BY <2>1, <2>3, <2>5, <2>7, <3>1
    <3> QED
      BY <2>1, <2>6, <2>7, <3>2
  <2>8. CASE d # e
    <3>1. IsThere(devices, stream'.inbox, d) <=> IsThere(devices, stream.inbox, d)
      BY <1>0, <2>1, <2>3, <2>5, <2>8, NoRecord
    <3> QED
      BY <1>a, <2>4, <2>6, <2>8, <3>1
  <2> QED
    BY <2>7, <2>8
<1>4. CASE Stream
  <2>1. CASE RestArrives
    <3> DEFINE piece == Piece([kind |-> "rest"], "tail")
    <3>1. /\ piece \in [msg: Messages, part: {"whole", "head", "tail"}] /\ piece.part = "tail"
      BY DEF Piece, Messages
    <3>2. stream'.inbox = Append(stream.inbox, piece) /\ stream'.lost = stream.lost
      BY <1>0, <2>1 DEF RestArrives
    <3> HIDE DEF piece
    <3> QED
      BY <1>1, <1>4, <3>1, <3>2 DEF Stream, Usbmuxd
  <2>2. CASE Ends
    <3>1. stream'.inbox = stream.inbox /\ stream'.lost = stream.lost
      BY <1>0, <2>2 DEF Ends
    <3> QED
      BY <1>4, <1>a, <3>1 DEF Stream, Usbmuxd
  <2> QED
    BY <1>4, <2>1, <2>2 DEF Stream
<1>5. ASSUME ReadMessage, reported' = reported,
             Message.kind \in {"Attached", "Detached"} => devices' = Kept(devices, Message),
             Message.kind \notin {"Attached", "Detached"} => devices' = devices
      PROVE  d \in reported' <=> IsThere(devices', stream'.inbox, d)
  <2>1. PICK k \in 1..2 : /\ k = 2 => stream.inbox[1].part = "head"
                         /\ Len(stream'.inbox) = Len(stream.inbox) - k
                         /\ \A i \in 1..Len(stream'.inbox) :
                              /\ i + k \in 1..Len(stream.inbox)
                              /\ stream'.inbox[i] = stream.inbox[i + k]
    BY <1>0, <1>5, Reads
  <2>2. /\ stream.inbox # << >> /\ 1 \in 1..Len(stream.inbox) /\ stream.inbox[1].part # "tail"
        /\ Message = stream.inbox[1].msg /\ stream'.inbox \in Inboxes
    BY <1>0, <1>5, Reads DEF Inboxes
  <2>3. stream'.lost = stream.lost
    BY <1>0, <1>5, Reads
  <2>4. k = 2 /\ 2 \in 1..Len(stream.inbox) => stream.inbox[2].part = "tail"
    BY <1>0, <2>1, <2>2 DEF Pieced
  <2>5. 1 \in Records(stream.inbox, d) <=> /\ Message.kind \in {"Attached", "Detached"}
                                           /\ Message.device = d
    BY <2>2 DEF Records
  <2>6. d \in devices' <=> IF 1 \in Records(stream.inbox, d)
                           THEN stream.inbox[1].msg.kind = "Attached" ELSE d \in devices
    BY <1>5, <2>2, <2>5 DEF Kept
  <2>7. IsThere(devices', stream'.inbox, d) <=> IsThere(devices, stream.inbox, d)
    BY <1>0, <2>1, <2>2, <2>4, <2>6, FirstRecord
  <2> QED
    BY <1>5, <1>a, <2>3, <2>7
<1>6. CASE ReceiveResult
  BY <1>5, <1>6 DEF ReceiveResult, Usbmuxd
<1>7. CASE ReceiveRecord
  BY <1>5, <1>7 DEF ReceiveRecord, Usbmuxd
<1>8. CASE Misread
  BY <1>0, <1>8 DEF Misread
<1>9. ASSUME UNCHANGED <<devices, reported, stream.inbox, stream.lost>>
      PROVE  d \in reported' <=> IsThere(devices', stream'.inbox, d)
  BY <1>9, <1>a
<1>10. CASE ClientThread /\ UNCHANGED <<devices, Usbmuxd>>
  <2>1. CASE SendTask
    BY <1>0, <1>9, <1>10, <2>1 DEF SendTask, Usbmuxd
  <2>2. CASE Moves
    BY <1>0, <1>9, <1>10, <2>2, MovesLoop DEF Usbmuxd
  <2> QED
    BY <1>8, <1>10, <2>1, <2>2 DEF ClientThread, Turn, Moves
<1>11. CASE startListenDevice \/ Posts \/ CallStop \/ UNCHANGED vars
  BY <1>9, <1>11 DEF startListenDevice, Posts, PostRequest, CallStop, Usbmuxd, vars
<1> QED
  BY <1>2, <1>3, <1>4, <1>6, <1>7, <1>10, <1>11 DEF Next, Daemon, LoopThread

\* The inductive invariant holds of every listener.
THEOREM Invariance == Spec => []IInv
<1>1. IInv /\ [Next]_vars => IInv'
  BY StepTyped, StepFresh, StepUnderway, StepPieced, StepMap DEF IInv
<1> QED
  BY <1>1, InitIInv, PTL DEF Spec

\* Type correctness, of UsbmuxdDeviceListener's fields and of the stream.
THEOREM Typed == Spec => []TypeOK
<1>1. IInv => TypeOK
  BY DEF IInv
<1> QED
  BY <1>1, Invariance, PTL

\* Whenever the answer to a request comes, parseResultMessage finds the handler
\* of that request.
THEOREM AnswersArrive == Spec => []AnswersFindTheirRequest
<1>1. IInv => AnswersFindTheirRequest
  <2> SUFFICES ASSUME IInv, NEW tag \in asking \cup Unanswered PROVE isAwaited(proto, tag)
    BY DEF AnswersFindTheirRequest
  <2>1. Known(proto, asking, loop.queue, stream.requests, stream.inbox)
    BY DEF IInv, Underway
  <2>2. {j \in Waiting : stream.inbox[j].msg.kind = "Result"} = Results(stream.inbox)
    BY DEF Waiting, Results
  <2>3. tag \in proto.headers \cap proto.handlers
    BY <2>1, <2>2 DEF Unanswered, Known
  <2> QED
    BY <2>3 DEF isAwaited
<1> QED
  BY <1>1, Invariance, PTL

\* As long as no message was lost, the map and the records on their way to it are what
\* usbmuxd has reported.
THEOREM MapIsTrue == Spec => []MapFollowsReports
<1>1. IInv => MapFollowsReports
  BY DEF IInv
<1> QED
  BY <1>1, Invariance, PTL
=============================================================================
