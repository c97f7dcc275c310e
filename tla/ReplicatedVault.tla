--------------------------- MODULE ReplicatedVault ---------------------------
(***************************************************************************)
(* What smart-merge synchronisation promises, with the transport, the      *)
(* retries and the metadata abstracted away: every device keeps a replica, *)
(* the vault keeps one copy, and a copy only ever learns newer rows.       *)
(*                                                                         *)
(* A row is the stamp of its last edit; 0 stands for a row that is absent. *)
(***************************************************************************)
EXTENDS Naturals

CONSTANTS
    Devices,    \* the devices that share the vault
    Records     \* the rows of the synchronised tables

VARIABLES
    store,      \* the rows in the shared vault
    replica     \* replica[d]: the rows in the database of device d

vars == <<store, replica>>

Rows == [Records -> Nat]

\* The newer stamp of each row.
Newest(a, b) == [r \in Records |-> IF a[r] >= b[r] THEN a[r] ELSE b[r]]

\* No row of a is newer than the same row of b.
AtMost(a, b) == \A r \in Records : a[r] <= b[r]

\* The copies that b may have been at an earlier time: they are at most b.
Earlier(b) == {a \in [Records -> UNION {0 .. b[r] : r \in Records}] : AtMost(a, b)}

Init ==
    /\ store = [r \in Records |-> 0]
    /\ replica = [d \in Devices |-> [r \in Records |-> 0]]

\* The user of device d writes row r: the new stamp is later than the row's old one.
Edit(d, r) ==
    /\ replica'[d][r] > replica[d][r]
    /\ replica' = [replica EXCEPT ![d][r] = replica'[d][r]]
    /\ UNCHANGED store

\* Device d learns the rows of a copy of the vault that may be out of date.
Learn(d) ==
    /\ \E seen \in Earlier(store) :
          replica' = [replica EXCEPT ![d] = Newest(replica[d], seen)]
    /\ UNCHANGED store

\* The vault learns the rows of a copy of replica d that may be out of date.
Publish(d) ==
    /\ \E sent \in Earlier(replica[d]) : store' = Newest(store, sent)
    /\ UNCHANGED replica

Next ==
    \E d \in Devices :
        \/ \E r \in Records : Edit(d, r)
        \/ Learn(d)
        \/ Publish(d)

Spec == Init /\ [][Next]_vars
==============================================================================
