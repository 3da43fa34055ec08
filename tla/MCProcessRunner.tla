---------------------------- MODULE MCProcessRunner ----------------------------
(* ProcessRunner with a child and two more processes, and one write too many. *)
EXTENDS ProcessRunner
=============================================================================
