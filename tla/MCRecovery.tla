----------------------------- MODULE MCRecovery -----------------------------
(* Values for the run of Recovery: j2 waits for the end of j1.             *)
EXTENDS Recovery, TLC

CONSTANTS j1, j2

J2Deps == [j \in Jobs |-> IF j = j2 THEN {j1} ELSE {}]

AnyDep == [j \in Jobs |-> "ANY"]

HostSymmetry == Permutations(Hosts)
=============================================================================
