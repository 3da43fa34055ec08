------------------------- MODULE MCConnectionControl -------------------------
(* ConnectionControl with two helper processes.                            *)
EXTENDS ConnectionControl, TLC

\* Every state of either provider's installation, and changes from any to any other ...
MCPackaged == [p \in Provider |-> Installation]

\* ... and of IVPN's only, for the run with liveness.
MCPackagedIvpn == [mullvad |-> {"ok"}, ivpn |-> Installation]
=============================================================================
