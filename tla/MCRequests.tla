---------------------------- MODULE MCRequests ----------------------------
(***************************************************************************)
(* Instances of Requests for TLC: two clients, a slot or two, two jobs.    *)
(***************************************************************************)
EXTENDS Requests

CONSTANTS c1, c2, j1, j2

One == <<j1>>
Both == <<j1, j2>>

\* c1 is a DRMAA program, c2 the user's commands.
Roles ==
  c1 :> {"RUN", "WAIT_ANY", "DISPOSE", "KILL_ALL"} @@
  c2 :> {"WAIT", "TIMEOUT", "JOB_PS", "KILL_ASYNC", "KILL_HARD"} \cup Signals
Calls == c1 :> 2 @@ c2 :> 1

\* A resume, a hold, a release and a status are of the job that was there before,
\* and meet the program's first call only: the other job is never stopped, and
\* three of them change no job here.
Small ==
  call[c2].api \in {"RESUME", "HOLD", "RELEASE", "JOB_PS"} =>
    call[c2].jobs = One /\ ncalls[c1] <= 1

=============================================================================
