---------------------------- MODULE MCCommunicator ----------------------------
(* Two writers beside the owner: the least number that lets one write end   *)
(* while another is in progress.                                            *)
EXTENDS Communicator
=============================================================================
