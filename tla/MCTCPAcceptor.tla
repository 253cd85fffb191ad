---------------------------- MODULE MCTCPAcceptor ----------------------------
(* Three peers and a backlog of two: a connection arrives while others wait   *)
(* and while one is being handed over, and the queue of the kernel is full.   *)
EXTENDS TCPAcceptor
=============================================================================
