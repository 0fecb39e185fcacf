------------------------------ MODULE MCFixture ------------------------------
(* Small instances of Fixture for TLC. *)
EXTENDS Fixture, TLC

CONSTANTS q1, q2, q3, k1, k2, b1, b2

Three == {q1, q2, q3}
Symmetry == Permutations(Three) \cup Permutations({k1, k2}) \cup Permutations({b1, b2})
=============================================================================
