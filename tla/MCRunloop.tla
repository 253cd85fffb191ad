------------------------------ MODULE MCRunloop ------------------------------
(* Two clients race with each other and with the loop's thread; three posts  *)
(* of two kinds of task let a post arrive while another is being drained and *)
(* tell their order apart.                                                   *)
EXTENDS Runloop
=============================================================================
