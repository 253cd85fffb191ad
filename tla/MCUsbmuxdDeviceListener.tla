------------------------ MODULE MCUsbmuxdDeviceListener ------------------------
(* Two requests, so that the answer of one arrives while the other is made;   *)
(* two devices and three reports: one device goes while the other comes.      *)
EXTENDS UsbmuxdDeviceListener
=============================================================================
