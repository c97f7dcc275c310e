----------------------------- MODULE MCVaultSync -----------------------------
(***************************************************************************)
(* Instances of VaultSync for TLC: who runs the sessions, and how often    *)
(* the environment interferes.                                             *)
(***************************************************************************)
EXTENDS VaultSync

CONSTANTS d1, d2, s1, s2, r1, r2

\* The scheduler of each of two computers.
OneEach == [s \in {s1, s2} |-> IF s = s1 THEN d1 ELSE d2]

\* The two computers are alike: exchange them together with their sessions.
Exchange ==
    {[x \in {d1, d2, s1, s2} |-> x],
     [x \in {d1, d2, s1, s2} |-> CASE x = d1 -> d2 [] x = d2 -> d1
                                    [] x = s1 -> s2 [] x = s2 -> s1]}

\* The scheduler's isolate and the settings page's isolate of one computer.
BothOnOne == [s \in {s1, s2} |-> d1]

\* One computer that keeps its vault at a provider.
Alone == [s \in {s1} |-> d1]

\* Interruption i at most n times, and no other.
Only(i, n) == [j \in Interruptions |-> IF j = i THEN n ELSE 0]

OneOutage == Only("outage", 1)
TwoRestores == Only("restore", 2)

\* The network fails, the process ends and the key is forgotten, each once.
OneOfEach == [i \in Interruptions |-> IF i = "restore" THEN 0 ELSE 1]
==============================================================================
