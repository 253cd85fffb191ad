---------------------------- MODULE MCTCPConnector ----------------------------
(* Three rounds, the default of mRetryTimes, so that an error can be followed *)
(* by a timeout and by an inconclusive round; a second connect() arrives at   *)
(* every moment of the first.                                                 *)
EXTENDS TCPConnector
=============================================================================
