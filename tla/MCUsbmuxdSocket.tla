---------------------------- MODULE MCUsbmuxdSocket ----------------------------
(* One byte of the peer, which may come before the answer is read, in the      *)
(* hand-over or after it.  The user leaves read() to the handler: a read() with*)
(* nothing to read closes a socket that waits for its connector, and what then *)
(* becomes of it is the race of connected() that module TCPSocket has.         *)
EXTENDS UsbmuxdSocket
=============================================================================
