----------------------------- MODULE MCCallout ------------------------------
(* Callout on three timers with delays that coincide, nest and are overdue, *)
(* and a stalled main loop that ages the queue by more than one deadline.   *)
EXTENDS Callout

MCDelays == {-1, 0, 2, 3}
MCElapsed == {0, 1, 3}
=============================================================================
