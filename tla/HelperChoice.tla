------------------------------ MODULE HelperChoice ------------------------------
(***************************************************************************)
(* Which helper the app's bridge runs (resolve_helper in                   *)
(* device/src/bridge.rs): a reader, without any lock, of the receipt that  *)
(* the installer writes and of the files it lists.                         *)
(*                                                                         *)
(* The registrations, which make Chrome start a helper without the app,    *)
(* name a version by the manifest; the bridge takes the receipt's last, or *)
(* the one that bridge.json names.  It only looks, so that a setup between *)
(* two of its looks makes it fail or find what one of the looks would.     *)
(***************************************************************************)
EXTENDS WindowsInstaller

LOCAL INSTANCE SequencesExt
LOCAL INSTANCE FiniteSetsExt

\* installed_versions: no receipt, or one that this channel's installer did not
\* write, is an error.
Installed == OrEmpty(receipt)

\* The version that bridge.json (choice) or else the receipt names; None is an error.
Named(choice) ==
  IF choice # None THEN IF choice \in Listed(receipt) THEN choice ELSE None
  ELSE IF Installed = <<>> THEN None ELSE Last(Installed)

\* The helper that the bridge runs: a regular file of the user's.
Resolved(choice) == IF Named(choice) \in binaries THEN Named(choice) ELSE None

-----------------------------------------------------------------------------
(* Properties *)

\* While no setup is at work the bridge finds the helper that is named, whatever came
\* before, unless it is one whose own install, or removal, was cut short: then every
\* well-formed request of the app's gets providerUnavailable until that version is
\* installed again, even if another has been since and Chrome starts it.
BridgeFindsTheHelper ==
  lock = None =>
    \A choice \in Version \cup {None} :
      Named(choice) \notin interrupted => Resolved(choice) = Named(choice)

\* device/README.md:57: the version "comes from `bridge.json` in the app's support
\* directory, or else the newest": the one whose install has just succeeded, or at
\* least the highest.  (For versions that are numbers.)
BridgeRunsTheNewest ==
  [][\A s \in Setup : Succeeds(s) /\ Installing(s) =>
       Resolved(None)' \in {None, job[s], Max(Listed(receipt'))}]_vars
=============================================================================
