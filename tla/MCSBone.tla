-------------------------------- MODULE MCSBone --------------------------------
(* Three sbone devices, d1 being the one at 00:04.0 that the test program   *)
(* writes to.                                                              *)
EXTENDS SBone
====
