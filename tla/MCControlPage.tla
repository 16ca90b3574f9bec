--------------------------- MODULE MCControlPage ---------------------------
(* ControlPage with one property of any type and two connections. *)
EXTENDS ControlPage

MCValues == {0, 1}

=============================================================================
