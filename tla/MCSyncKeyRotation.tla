-------------------------- MODULE MCSyncKeyRotation --------------------------
(***************************************************************************)
(* Instances of SyncKeyRotation for TLC.                                   *)
(***************************************************************************)
EXTENDS SyncKeyRotation

\* The settings page visits the built-in providers first.
AllKinds == <<"github", "gist", "s3">>
==============================================================================
