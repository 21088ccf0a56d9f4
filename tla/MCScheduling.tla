---------------------------- MODULE MCScheduling ----------------------------
(***************************************************************************)
(* An instance of Scheduling for TLC: two hosts of one slot, an array of   *)
(* two jobs, a job of the same user and a job of another user.             *)
(***************************************************************************)
EXTENDS Scheduling

CONSTANTS j1, j2, j3, j4, h1, h2, u1, u2, a1

Owners == j1 :> u1 @@ j2 :> u1 @@ j3 :> u2 @@ j4 :> u1
Array == j1 :> a1 @@ j2 :> a1 @@ j3 :> NoArray @@ j4 :> NoArray
Requests == {<<j1, j2>>, <<j3>>, <<j4>>}
Ranks == h1 :> 1 @@ h2 :> 2
Slots == h1 :> 1 @@ h2 :> 1
Priorities == h1 :> 1 @@ h2 :> 1

\* Bounds: the array is given first, alone or with one of the other jobs, and then
\* nothing fails; the IM asks and is answered while there is one job, which has
\* not ended.  Two faults, or a fault and two timers, happen while there is no job.
Given == {j \in Jobs : job[j].state # "NONE"}
Small ==
  /\ Given \in {{}, {j1}, {j1, j2}, {j1, j2, j3}, {j1, j2, j4}}
  /\ Cardinality(Given) = 3 => events = 0
  /\ events > 2 => Given = {}
  /\ queries # <<>> =>
       /\ Cardinality(Given) <= 1
       /\ \A j \in Jobs : job[j].state \notin {"ZOMBIE", "FREED"}
=============================================================================
