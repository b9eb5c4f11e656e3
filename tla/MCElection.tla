----------------------------- MODULE MCElection -----------------------------
(* Three routers, any of which crash, together or one after the other.     *)
EXTENDS Election

MCRouter == {1, 2, 3}
=============================================================================
