--------------------------- MODULE MCReleaseStore ---------------------------
(* Instances of ReleaseStore for TLC. *)
EXTENDS ReleaseStore, TLC

CONSTANTS b1, v1, s1, s2, t1, t2
=============================================================================
