------------------------------ MODULE Wrappers ------------------------------
(***************************************************************************)
(* What the dispatch manager needs from the execution of wrappers.  It     *)
(* asks for a job to be executed; at most one wrapper of the job runs at a *)
(* time, and only while the request is open; the request is closed only    *)
(* when no wrapper runs any more, so that the slot of the host is free.    *)
(***************************************************************************)
EXTENDS Naturals

CONSTANT Jobs

VARIABLES
  asked,    \* the jobs whose execution is asked for
  running   \* the jobs whose wrapper runs

Init == asked = {} /\ running = {}

Ask(j) == j \notin asked /\ asked' = asked \union {j} /\ UNCHANGED running

Start(j) ==
  /\ j \in asked \ running
  /\ running' = running \union {j}
  /\ UNCHANGED asked

Finish(j) ==
  /\ j \in running
  /\ running' = running \ {j}
  /\ UNCHANGED asked

Close(j) ==
  /\ j \in asked \ running
  /\ asked' = asked \ {j}
  /\ UNCHANGED running

Next == \E j \in Jobs : Ask(j) \/ Start(j) \/ Finish(j) \/ Close(j)

Spec == Init /\ [][Next]_<<asked, running>>

=============================================================================
