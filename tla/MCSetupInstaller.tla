---------------------------- MODULE MCSetupInstaller ----------------------------
(* SetupInstaller with two setup processes, three versions and two browsers. *)
EXTENDS SetupInstaller, TLC

Symmetry == Permutations(Setup) \cup Permutations(Version) \cup Permutations(Browser)
=============================================================================
