----------------------------- MODULE MCTCPSocket -----------------------------
(* Both kinds of socket, and one configuration per question about one of     *)
(* them.  Two sends of the peer let bytes arrive before and after a read; a  *)
(* connecting socket's peer sends once, before, in or after the hand-over.   *)
EXTENDS TCPSocket

Sends == [Local |-> 2, Remote |-> 1]

SendsOnce == [Local |-> 1, Remote |-> 1]
=============================================================================
