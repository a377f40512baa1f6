---------------------------- MODULE MCAuthServer ----------------------------
(* Small instances of AuthServer for TLC.                                  *)
EXTENDS AuthServer

CONSTANTS r1, r2, s1, s2, q1, q2

Symmetry == Permutations(Req) \cup Permutations(Runner) \cup Permutations(Seeder)

=============================================================================
