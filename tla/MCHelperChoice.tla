----------------------------- MODULE MCHelperChoice -----------------------------
(* The installer and the bridge's choice: two setup processes, two versions, and *)
(* three browsers, two of which share a registry key.                            *)
EXTENDS HelperChoice, TLC

Symmetry == Permutations(Setup) \cup Permutations(Version)
=============================================================================
