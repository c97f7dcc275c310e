---------------------------- MODULE MCSyncRecords ----------------------------
(***************************************************************************)
(* Two devices, a host of the first, and a tag of each.                    *)
(***************************************************************************)
EXTENDS SyncRecords

CONSTANTS h1, a, b

OfTheFirst == [h \in {h1} |-> 1]
OneTagEach == [t \in {1, 2} |-> t]

\* The clock of the first device is a unit ahead.
FirstAhead == [d \in {1, 2} |-> IF d = 1 THEN 1 ELSE 0]
==============================================================================
