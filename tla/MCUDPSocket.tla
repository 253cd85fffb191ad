----------------------------- MODULE MCUDPSocket -----------------------------
(* Two datagrams: one arrives while the other is announced, and an empty one  *)
(* comes before or after one with content.                                    *)
EXTENDS UDPSocket
=============================================================================
