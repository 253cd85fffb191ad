--------------------------- MODULE UsbmuxdConnector ---------------------------
(***************************************************************************)
(* The class UsbmuxdConnector: a client of usbmuxd that asks for one       *)
(* connection to a device and tells its owner how that went.  From the     *)
(* moment usbmuxd has accepted, the same stream is the connection, and its *)
(* descriptor is the owner's.                                              *)
(*                                                                         *)
(* The callback runs inside the parsing of the answer, at "callback"; what *)
(* the owner does in it is module UsbmuxdSocket.                           *)
(***************************************************************************)
EXTENDS UsbmuxdClient

\* connect(), on the caller's thread: connectBegin and the request.
connect == /\ Alive /\ asking = {}
           /\ m' = connectBegin(m)
           /\ proto' = makeConnectRequestWithHandler(proto)
           /\ asking' = {proto.tag}
           /\ UNCHANGED <<loop, stream>>

\* usbmuxd accepts, or it knows no such device or nobody listens on its port.
Answers(ok) == /\ CanSend
               /\ \E tag \in stream.requests :
                    stream' \in Sent([stream EXCEPT !.requests = @ \ {tag}], Result(tag, ok))
               /\ UNCHANGED <<m, loop, proto, asking>>

Event_blind == "Connected"     \* mutant: the result is not tested

\* What the handler of the request makes of the result.
Event == IF Message.ok THEN "Connected" ELSE "Errored"

\* Its verdict, and then the callback with the event.
ReceiveAnswer == /\ ReadMessage
                 /\ isAwaited(proto, Message.tag)
                 /\ m' = IF Event = "Connected" THEN connected(m) ELSE errored(m)
                 /\ loop' = Goto(loop, "callback")
                 /\ UNCHANGED <<proto, asking>>

\* The callback returns, and the request leaves the maps.
CallbackReturns == /\ loop.pc = "callback"
                   /\ \E tag \in proto.handlers : proto' = parseResultMessage(proto, tag)
                   /\ loop' = dispatch(loop, FALSE)
                   /\ UNCHANGED <<m, asking, stream>>
=============================================================================
