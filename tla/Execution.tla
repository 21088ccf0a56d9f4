----------------------------- MODULE Execution -----------------------------
(***************************************************************************)
(* The execution of wrappers: the execution manager of gwd and the DRM4G   *)
(* execution MAD, joined by the two pipes to_mad and from_mad.             *)
(***************************************************************************)
EXTENDS ExecutionManager

CONSTANTS
  Timely,       \* see ExecutionMad and Starts below
  MaxCrashes, MaxRuns

ASSUME MadAssumption ==
  /\ Timely \in BOOLEAN
  /\ MaxCrashes \in Nat
  /\ MaxRuns \in Nat

VARIABLES job_list, status, tasks, answers, round, callback, remote, crashes

MAD == INSTANCE ExecutionMad

madv == <<job_list, status, tasks, answers, round, callback, remote, crashes>>
gwdv == <<job_state, em_state, recv, tryv, contact, polling, hstv, emq, dmq>>
vars == <<emvars, madv>>

Init == EMInit /\ MAD!MadInit

\* Nothing is under way about the job.
Quiet(j) ==
  /\ \A l \in tasks \union answers : l[2] # j
  /\ \A l \in round : l[1] # j
  /\ callback # <<>> => callback[1] # j
  /\ \A q \in {emq, dmq, to_mad, from_mad} : \A i \in DOMAIN q : q[i][2] # j

\* When Timely, a job is dispatched again only after all that was said of its
\* last wrapper has been heard: an epilog and a prolog lie in between.
Starts(j) == job_state[j] = "PENDING" /\ job_state'[j] # "PENDING"

Gwd(A) ==
  /\ A /\ UNCHANGED madv
  /\ Timely => \A j \in Jobs : Starts(j) => Quiet(j)

Mad(A) == A /\ UNCHANGED gwdv

Next == Gwd(EMNext) \/ Mad(MAD!MadNext)

Spec == Init /\ [][Next]_vars

-----------------------------------------------------------------------------
(* Safety.                                                                 *)

\* The types of the variables of gwd.
TypeOK ==
  /\ job_state \in [Jobs -> JobStates]
  /\ em_state \in [Jobs -> EMStates]
  /\ host \in [Jobs -> Hosts \union {NoHost}]
  /\ records \in [Jobs -> 0..MaxRecords]
  /\ tries \in [Jobs -> 0..2 * number_of_retries + 2]
  /\ counter \in [Jobs -> {-1} \union 1..number_of_retries]
  /\ failed_polls \in [Jobs -> 0..4] /\ cancel_tries \in [Jobs -> Nat]
  /\ contact \in [Jobs -> 0..MaxRuns]
  /\ polling \in [Jobs -> 0..MaxPolls]
  /\ active_jobs \in [Hosts -> Int] /\ used_slots \in [Hosts -> Int]
  /\ mad_up \in BOOLEAN

\* Polls, callbacks and retries together never have two wrappers of one job
\* running: gw_em_failed plans a new try only when the last one has ended.
OneRun == \A j \in Jobs : Cardinality(MAD!Live(j)) <= 1

\* gwd gives the DM what it needs: no wrapper runs before the DM asked for it
\* or after it was told of its end, whatever the order in which the poll, the
\* callback and the answer to SUBMIT arrive.
Service == INSTANCE Wrappers WITH
  asked <- {j \in Jobs : job_state[j] \in ExecStates},
  running <- {j \in Jobs : MAD!Live(j) # {}}

ServiceSpec == Service!Spec

\* An end reported twice, by a poll and by a callback, frees one slot only:
\* gw_em_done drops the second report, or the DM finds the job elsewhere.
SlotFreedOnce == \A h \in Hosts : used_slots[h] >= 0

AtRest ==
  /\ emq = <<>> /\ dmq = <<>>
  /\ \A j \in Jobs : job_state[j] \in {"PENDING", "EPILOG"}

\* When no job is executed, the slots that were charged for the wrappers are
\* free and no wrapper is counted as active: each gw_host_inc_ajobs_nb of
\* gw_em_active has had its gw_host_dec_ajobs_nb.
CountersReturned ==
  AtRest => \A h \in Hosts : used_slots[h] = 0 /\ active_jobs[h] = 0

\* job_template.default:147, "Number of retries in case of failure": a wrapper is
\* submitted again only after the remote job of the last try has ended.
RetryAfterFailure ==
  \A j \in Jobs : em_state[j] = "FAILED" /\ counter[j] # -1 => MAD!Live(j) = {}

-----------------------------------------------------------------------------
(* Liveness.  The threads of gwd and of the MAD keep running; a remote job *)
(* need not end by itself.  The callback thread gets strong fairness: when *)
(* Timely, its sleep outlasts the answers the pool is printing.            *)

Fairness ==
  /\ WF_vars(Gwd(DMStep)) /\ WF_vars(Gwd(EMStep))
  /\ WF_vars(Gwd(EMListen \/ EMReload))
  /\ \A j \in Jobs :
       /\ WF_vars(Gwd(EMPoll(j))) /\ WF_vars(Gwd(EMRetry(j)))
       /\ WF_vars(Mad(MAD!PoolPoll(j) \/ MAD!PoolCancel(j)))
  /\ WF_vars(Mad(MAD!MadRead))
  /\ WF_vars(Mad(\E a \in answers : MAD!PoolPrint(a)))
  /\ SF_vars(Mad(MAD!CallbackThread))

FairSpec == Spec /\ Fairness

\* A wrapper that has been submitted and is cancelled comes to an end, although
\* a cancel may fail, may be lost in a crash of the MAD, and is never answered:
\* each report of a state sends another one, and after three tries gw_em_cancel
\* takes the wrapper for done.
CancelEnds ==
  \A j \in Jobs :
    job_state[j] \in CancelStates /\ em_state[j] \in Submitted
      ~> job_state[j] \notin CancelStates

RemoteEnds ==
  \A r \in 1..MaxRuns : WF_vars(Mad(r \in MAD!Runs /\ MAD!RemoteStep(r)))

\* If remote jobs end, a job does not stay in WRAPPER: neither a crash of the
\* MAD that loses the submission, its answer, the job list or a report, nor a
\* RECOVER that fails, makes gwd forget it.
WrapperEnds ==
  RemoteEnds =>
    \A j \in Jobs : job_state[j] = "WRAPPER" ~> job_state[j] # "WRAPPER"

=============================================================================
