------------------------------- MODULE MCMrt2 -------------------------------
(* Two sources of one group, one directly attached and one behind the      *)
(* routers of interface 3, which has hosts too: one step of the table      *)
(* touches several entries, one of them on the interface it comes from.    *)
EXTENDS Mrt, TLC

MCSource == {7, 9}
MCIncoming == (7 :> 1) @@ (9 :> 3)
MCNextHop == (7 :> 7) @@ (9 :> 5)
MCNoWords == {{}}
MCNoNext == {TRUE}
=============================================================================
