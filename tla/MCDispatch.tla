----------------------------- MODULE MCDispatch -----------------------------
(* Values for the runs of DispatchManager: dependencies, symmetry.         *)
EXTENDS DispatchProperties, TLC

CONSTANTS j1, j2, j3

NoDeps == [j \in Jobs |-> {}]

J3Deps == [j \in Jobs |-> IF j = j3 THEN {j1, j2} ELSE {}]

AnyDep == [j \in Jobs |-> "ANY"]

\* j3 cleans up after the failure of j1 and j2.
FailedDep == [j \in Jobs |-> IF j = j3 THEN "KO" ELSE "ANY"]

\* j1 and j2 differ in nothing in the runs that use this.
JobSymmetry == Permutations({j1, j2})

HostSymmetry == Permutations(Hosts)
=============================================================================
