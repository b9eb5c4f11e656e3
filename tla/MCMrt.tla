------------------------------- MODULE MCMrt --------------------------------
(* One flow from a source behind another router, two interfaces.           *)
EXTENDS Mrt

MCSource == {9}
MCIncoming == [s \in MCSource |-> 1]
MCNextHop == [s \in MCSource |-> 5]
=============================================================================
