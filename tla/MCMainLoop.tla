----------------------------- MODULE MCMainLoop -----------------------------
(* Seconds of three ticks, so that the microseconds carried can come from  *)
(* both sides of where they started; timer and one more timer, and delays  *)
(* with which a timer runs as early as it ever may.                        *)
EXTENDS MainLoop

MCDelays == {0, 1, 3}
=============================================================================
