------------------------ MODULE MCReleaseActivation ------------------------
(* Small instances of ReleaseActivation for TLC. *)
EXTENDS ReleaseActivation, TLC

CONSTANTS b1, b2, b3, v1, v2, c1, c2

OneService  == {1}
TwoServices == {1, 2}
Interchangeable == Permutations({c1, c2}) \cup Permutations({v1, v2})
SafeSymmetry == Interchangeable \cup Permutations({b1, b2})
=============================================================================
