----------------------------- MODULE MCSseFeed -----------------------------
(* Three events in one room, read in pages of two by a client that loses   *)
(* its connection at any moment and resumes once.                          *)
EXTENDS SseFeed, TLC

CONSTANTS q1, q2, q3, r1, w1, c1

MCWorkspaceOf == r1 :> w1
MCRoomOf == c1 :> r1

=============================================================================
