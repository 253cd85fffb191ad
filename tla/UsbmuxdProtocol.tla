---------------------------- MODULE UsbmuxdProtocol ----------------------------
(***************************************************************************)
(* The class UsbmuxdProtocol, as operators on its fields: the tag counter  *)
(* and the two maps of the requests that usbmuxd has not answered, from    *)
(* tags to the header sent and to the handler that waits.  Of the maps the *)
(* keys matter: no branch looks at a header, and a handler is what the     *)
(* caller's module does with the answer.                                   *)
(*                                                                         *)
(* The text of a message is a property list, written and read by libplist; *)
(* a message is here what that text says.  The counter has 32 bits, more   *)
(* than a model makes requests.                                            *)
(***************************************************************************)
EXTENDS Naturals

NewProtocol == [tag |-> 0, headers |-> {}, handlers |-> {}]

makeListenRequestWithHandler_reused(p) ==  \* mutant: _tag is not counted up
  [p EXCEPT !.headers = @ \cup {p.tag}, !.handlers = @ \cup {p.tag}]

\* A request takes the next tag and is entered in both maps before its bytes
\* exist; the request carries the tag p.tag.
makeListenRequestWithHandler(p) ==
  [tag |-> p.tag + 1, headers |-> p.headers \cup {p.tag}, handlers |-> p.handlers \cup {p.tag}]

\* The other request differs in its text alone.
makeConnectRequestWithHandler(p) == makeListenRequestWithHandler(p)

\* The messages usbmuxd sends, by the MessageType that parsePlistPayloadMessage
\* dispatches on.
Result(tag, ok) == [kind |-> "Result", tag |-> tag, ok |-> ok]

DeviceRecord(kind, device) == [kind |-> kind, device |-> device]

\* Does the answer with this tag reach a handler?
isAwaited(p, tag) == tag \in p.headers /\ tag \in p.handlers

\* A result leaves the maps without its tag, if the header was there.
parseResultMessage(p, tag) ==
  IF tag \in p.headers
  THEN [p EXCEPT !.headers = @ \ {tag}, !.handlers = @ \ {tag}]
  ELSE p
=============================================================================
