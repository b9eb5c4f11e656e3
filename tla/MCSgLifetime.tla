---------------------------- MODULE MCSgLifetime ----------------------------
(* Two flows; 298 and 30 seconds are scaled to 5 and 2, so that the timeout *)
(* still falls between two checks.                                         *)
EXTENDS SgLifetime
=============================================================================
