------------------------------ MODULE MCRoute -------------------------------
(* Two interfaces, on subnets of one to eight addresses that may overlap;  *)
(* two sources, one of which may be attached, and a socket for two         *)
(* messages.                                                               *)
EXTENDS Route

MCAddress == 1..11
MCSource == {3, 10}
MCNextHop == {0, 1, 6}

MCConfig ==
  {<<[address |-> 2, size |-> m, is_active |-> b],
     [address |-> 5, size |-> n, is_active |-> TRUE]>> :
     m \in {1, 4}, n \in {4, 8}, b \in BOOLEAN}
=============================================================================
