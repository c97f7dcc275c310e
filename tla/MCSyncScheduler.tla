---------------------------- MODULE MCSyncScheduler ----------------------------
(***************************************************************************)
(* The scheduler with both kinds of saves: a page that saves the sync      *)
(* settings and one that saves the runtime settings.                       *)
(***************************************************************************)
EXTENDS SyncScheduler

CONSTANT r0, r1     \* two runtime settings

PageSections == [w \in {"sync_page", "runtime_page"} |->
               IF w = "sync_page" THEN "sync" ELSE "runtime"]

BundledConfig == [sync |-> 0, runtime |-> r0]
================================================================================
