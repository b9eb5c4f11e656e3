------------------------------ MODULE MCHello -------------------------------
(* Two routers, one of another make that says goodbye and puts an option   *)
(* of its own in front of the holdtime; a period of two units, a holdtime  *)
(* of seven.                                                               *)
EXTENDS Hello

MCHoldtime == {0, 7}

MCOption(t, l, h) == [type |-> t, length |-> l, holdtime |-> h]

MCOptions ==
  [r1 |-> <<MCOption(1, 2, 7)>>,
   r2 |-> <<MCOption(19, 4, 0), MCOption(1, 2, 7)>>]
=============================================================================
