----------------------------- MODULE MCEventLog -----------------------------
(* Three handlers over two rooms of one workspace and a room of another.   *)
EXTENDS EventLog, TLC

CONSTANTS q1, q2, q3, r1, r2, r3, w1, w2

MCWorkspaceOf == r1 :> w1 @@ r2 :> w1 @@ r3 :> w2

=============================================================================
