------------------------------ MODULE MCSubnet ------------------------------
(* Two routers downstream, with the seconds of the code: a Join comes      *)
(* after one, a Prune is carried out after three and holds for five.       *)
EXTENDS Subnet
=============================================================================
