------------------------- MODULE UsbmuxdDeviceListener -------------------------
(***************************************************************************)
(* The class UsbmuxdDeviceListener: a client of usbmuxd that asks to be    *)
(* told of devices and keeps a map of those attached.                      *)
(*                                                                         *)
(* usbmuxd answers the request with a result.  Once it has accepted one it *)
(* reports every device that is there, and from then on every change.  The *)
(* user calls startListenDevice() up to MaxRequests times, stops the loop  *)
(* at any moment or never, and reads the map on the loop's thread, in the  *)
(* handler (a reading of it on another thread is a data race).             *)
(***************************************************************************)
EXTENDS UsbmuxdClient, FiniteSetsExt

CONSTANTS Devices,
          MaxRequests,   \* bound: calls of startListenDevice()
          MaxReports     \* bound: reports of usbmuxd

ASSUME BoundAssumption == MaxRequests \in Nat /\ MaxReports \in Nat

VARIABLES devices,    \* the keys of _devices
          reported,   \* the devices usbmuxd has reported as attached
          listening,  \* usbmuxd has accepted a request
          reports     \* the number of its reports

vars == <<m, loop, proto, asking, stream, devices, reported, listening, reports>>

Usbmuxd == <<reported, listening, reports>>

Init == /\ ClientInit
        /\ devices = {}
        /\ reported = {}
        /\ listening = FALSE
        /\ reports = 0

(* The user's thread *)

startListenDevice == /\ Alive /\ proto.tag < MaxRequests /\ asking = {}
                     /\ proto' = makeListenRequestWithHandler(proto)
                     /\ asking' = {proto.tag}
                     /\ UNCHANGED <<m, loop, stream, devices, Usbmuxd>>

Posts == PostRequest /\ UNCHANGED <<devices, Usbmuxd>>

CallStop == /\ Alive /\ ~loop.canceled
            /\ loop' = stop(loop)
            /\ UNCHANGED <<m, proto, asking, stream, devices, Usbmuxd>>

(* usbmuxd *)

Answers(ok) == /\ CanSend
               /\ \E tag \in stream.requests :
                    stream' \in Sent([stream EXCEPT !.requests = @ \ {tag}], Result(tag, ok))
               /\ listening' = (listening \/ ok)
               /\ UNCHANGED <<m, loop, proto, asking, devices, reported, reports>>

Reports(d) == /\ CanSend /\ listening
              /\ reports < MaxReports
              /\ reports' = reports + 1
              /\ stream' \in Sent(stream, DeviceRecord(IF d \in reported THEN "Detached"
                                                       ELSE "Attached", d))
              /\ reported' = SymDiff(reported, {d})
              /\ UNCHANGED <<m, loop, proto, asking, devices, listening>>

Stream == (RestArrives \/ Ends) /\ UNCHANGED <<devices, Usbmuxd>>

Daemon == \/ \E ok \in BOOLEAN : Answers(ok)
          \/ \E d \in Devices : Reports(d)
          \/ Stream

(* The loop's thread *)

\* The handler of a listen request: refused, the machine is Closed.
ReceiveResult == /\ ReadMessage
                 /\ Message.kind = "Result"
                 /\ m' = IF isAwaited(proto, Message.tag) /\ ~Message.ok THEN errored(m) ELSE m
                 /\ proto' = parseResultMessage(proto, Message.tag)
                 /\ loop' = dispatch(loop, FALSE)
                 /\ UNCHANGED <<asking, devices, Usbmuxd>>

\* mDeviceRecordHandler keeps the map; the user's handler is called after it.
Kept(known, record) == IF record.kind = "Attached" THEN known \cup {record.device}
                       ELSE known \ {record.device}

ReceiveRecord_adds ==          \* mutant: every record is taken for an attached device
  /\ ReadMessage
  /\ Message.kind \in {"Attached", "Detached"}
  /\ devices' = devices \cup {Message.device}
  /\ loop' = dispatch(loop, FALSE)
  /\ UNCHANGED <<m, proto, asking, Usbmuxd>>

ReceiveRecord == /\ ReadMessage
                 /\ Message.kind \in {"Attached", "Detached"}
                 /\ devices' = Kept(devices, Message)
                 /\ loop' = dispatch(loop, FALSE)
                 /\ UNCHANGED <<m, proto, asking, Usbmuxd>>

LoopThread == \/ ClientThread /\ UNCHANGED <<devices, Usbmuxd>>
              \/ ReceiveResult \/ ReceiveRecord

Next == startListenDevice \/ Posts \/ CallStop \/ Daemon \/ LoopThread

\* The scheduler runs the loop's thread: select() is bounded by a second, and the
\* descriptor does not block.  The user and usbmuxd owe nothing.
Fairness == WF_vars(LoopThread)

Spec == Init /\ [][Next]_vars

FairSpec == Spec /\ Fairness
-----------------------------------------------------------------------------

Tags == 0..MaxRequests

Messages == {Result(tag, ok) : tag \in Tags, ok \in BOOLEAN}
              \cup {DeviceRecord(kind, d) : kind \in {"Attached", "Detached"}, d \in Devices}
              \cup {[kind |-> "rest"]}

\* The loop is never in the wait of dispatch().
TypeOK == /\ m \in Machine
          /\ loop \in Loop(Tags, {"test", "select", "drain", "over", "killed"})
          /\ proto \in [tag: Tags, headers: SUBSET Tags, handlers: SUBSET Tags]
          /\ asking \subseteq Tags
          /\ stream \in [inbox: Seq([msg: Messages, part: {"whole", "head", "tail"}]),
                        rest: BOOLEAN, requests: SUBSET Tags, ended: BOOLEAN, lost: BOOLEAN]
          /\ devices \subseteq Devices /\ reported \subseteq Devices
          /\ listening \in BOOLEAN
          /\ reports \in 0..MaxReports

\* The messages that have arrived whole and wait, and those in two pieces.
Waiting == {i \in 1..Len(stream.inbox) : stream.inbox[i].part # "tail"}

\* The records about a device that wait among these pieces, and whether it is there
\* once they are applied, one after the other, to a map with these keys: the last one
\* has the last word.
Records(inbox, d) == {i \in 1..Len(inbox) : /\ inbox[i].part # "tail"
                                            /\ inbox[i].msg.kind \in {"Attached", "Detached"}
                                            /\ inbox[i].msg.device = d}

IsThere(known, inbox, d) ==
  IF Records(inbox, d) = {}
  THEN d \in known
  ELSE \E last \in Records(inbox, d) : /\ \A i \in Records(inbox, d) : i <= last
                                       /\ inbox[last].msg.kind = "Attached"

\* As long as no message was lost, the map and the records that wait for the loop
\* make up what usbmuxd has reported: none is applied twice, out of order or to
\* the wrong device, whatever pieces they came in.
MapFollowsReports ==
  ~stream.lost => reported = {d \in Devices : IsThere(devices, stream.inbox, d)}

\* A request on its way, at usbmuxd, or answered and not read yet is in both maps:
\* whenever the answer comes, it finds the handler of its own request.
Unanswered == {loop.queue[i] : i \in 1..Len(loop.queue)} \cup stream.requests \cup
              {stream.inbox[i].msg.tag : i \in {j \in Waiting : stream.inbox[j].msg.kind = "Result"}}

AnswersFindTheirRequest == \A tag \in asking \cup Unanswered : isAwaited(proto, tag)

\* The map comes to agree with usbmuxd about every device, unless the loop ends or
\* a message is lost.
Differs(d) == (d \in reported) # (d \in devices)

ChangeIsNoticed ==
  \A d \in Devices : Differs(d) ~> (~Differs(d) \/ stream.lost \/ loop.pc \in {"over", "killed"})

\* Refused, or stopped by whomever and at whatever moment, the loop ends: it never
\* waits for a task.
StoppedEnds == (loop.canceled \/ m.state = "Closed") ~> (loop.pc \in {"over", "killed"})
=============================================================================
