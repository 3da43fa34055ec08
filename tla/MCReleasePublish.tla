--------------------------- MODULE MCReleasePublish ---------------------------
(* ReleasePublish with two publishers and two releases, one of them on GitHub. *)
EXTENDS ReleasePublish, TLC

Symmetry == Permutations(Publisher) \cup Permutations(Build)
=============================================================================
