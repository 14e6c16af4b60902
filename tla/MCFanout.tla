------------------------------ MODULE MCFanout ------------------------------
(* Two connections; c2 is the one of the member that is followed.          *)
EXTENDS Fanout

CONSTANTS c1, c2

=============================================================================
