----------------------------- MODULE MCPresence -----------------------------
(* One user with two connections over two rooms.                           *)
EXTENDS Presence, TLC

CONSTANTS c1, c2, u1, r1, r2

MCUserOf == c1 :> u1 @@ c2 :> u1

Symmetry == Permutations({c1, c2}) \cup Permutations({r1, r2})

=============================================================================
