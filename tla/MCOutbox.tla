------------------------------ MODULE MCOutbox ------------------------------
(* Three rows, two of them of one room.                                    *)
EXTENDS Outbox, TLC

CONSTANTS p1, p2, r1, r2

MCRoomOf == 1 :> r1 @@ 2 :> r2 @@ 3 :> r1

=============================================================================
