------------------------------ MODULE Connections ------------------------------
(*****************************************************************************)
(* The parts of the native library that work on connections of their own,    *)
(* side by side: connection attempts, the registry of SFTP tasks, port       *)
(* forwarding, the files of an SFTP task and Telnet negotiation.  They share *)
(* no state, so that what holds of each by its own specification holds of    *)
(* all of them together.                                                     *)
(*****************************************************************************)
EXTENDS SshConnect, SftpTasks, PortForward, SftpTransfer, TelnetProtocol

ConnectionsSpec == TransferSpec /\ ConnectSpec /\ TasksSpec /\ ForwardSpec /\ TelnetSpec

(* Every component keeps its types, its counters and its bounds.             *)
ConnectionsTypeOK ==
  /\ TransferTypeOK /\ ConnectTypeOK /\ TasksTypeOK /\ ForwardTypeOK /\ TelnetTypeOK
================================================================================
