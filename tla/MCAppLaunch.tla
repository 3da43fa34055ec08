------------------------------ MODULE MCAppLaunch ------------------------------
(* AppLaunch with two ports, of which one may ask to open the app, and two app  *)
(* processes.                                                                   *)
EXTENDS AppLaunch
=============================================================================
