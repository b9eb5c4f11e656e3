------------------------------- MODULE MCIgmp -------------------------------
(* One interface among two routers with lower addresses and one with a     *)
(* higher address.                                                         *)
EXTENDS Igmp

MCRouter == {2, 3, 8}
=============================================================================
