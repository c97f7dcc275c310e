------------------------------- MODULE LocalData -------------------------------
(*****************************************************************************)
(* What this device keeps of its own, side by side: the capture of a         *)
(* session, the rows of the database and what the terminal engine makes of   *)
(* output.  They share no state, so that what holds of each by its own       *)
(* specification holds of the three together.                                *)
(*****************************************************************************)
EXTENDS TerminalCapture, LocalCatalog, TerminalOutput

LocalSpec == CaptureSpec /\ CatalogSpec /\ OutputSpec

(* Every component keeps its types and its bounds.                           *)
LocalTypeOK == CaptureTypeOK /\ CatalogTypeOK /\ OutputTypeOK
================================================================================
