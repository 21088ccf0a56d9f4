------------------------- MODULE DispatchProperties -------------------------
(***************************************************************************)
(* What the dispatch manager must guarantee, and the fairness under which  *)
(* it makes progress.                                                      *)
(***************************************************************************)
EXTENDS DispatchManager

\* The message <<a, j>> is in the DM queue.
Queued(a, j) == \E i \in 1..Len(dmq) : dmq[i] = <<a, j>>

\* The types of the variables, by component.
StatesTyped ==
  /\ job_state \in [Jobs -> JobStates]
  /\ reschedule \in [Jobs -> BOOLEAN]
  /\ deps \in [Jobs -> SUBSET Jobs]
  /\ exit_ok \in [Jobs -> BOOLEAN]

HistoryTyped ==
  /\ reason \in [Jobs -> Reasons]
  /\ host \in [Jobs -> Hosts \union {NoHost}]
  /\ prev \in [Jobs -> Hosts \union {NoHost}]
  /\ records \in [Jobs -> Nat]

HostsTyped ==
  /\ used_slots \in [Hosts -> Int]
  /\ running_jobs \in [Hosts -> Int]
  /\ user_running \in Int

QueueTyped == dmq \in Seq(DMActions \X Jobs)

ClientsTyped ==
  /\ conn \in [Jobs -> SUBSET ClientOps]
  /\ waiting \in [Jobs -> BOOLEAN]

ManagersTyped ==
  /\ em_state \in [Jobs -> EMStates]
  /\ em_sub \in [Jobs -> BOOLEAN]
  /\ em_retry \in [Jobs -> BOOLEAN]
  /\ runs \in [Jobs -> SUBSET Hosts]
  /\ tm_req \in [Jobs -> {"NONE", "PROLOG", "EPILOG"}]

SchedulerTyped ==
  /\ entries \in [Jobs -> Nat]
  /\ inflight \in Seq(Jobs \X (Hosts \union {NoHost}))
  /\ scheduling \in BOOLEAN

\* Type correctness.  Only the counters of hosts and user may go below zero: no
\* code of gw_host.c and gw_user_pool.c checks them.  The scheduler's list has no
\* negative number of entries, although the DM deletes entries it has not.
TypeOK ==
  /\ StatesTyped
  /\ HistoryTyped
  /\ HostsTyped
  /\ QueueTyped
  /\ ClientsTyped
  /\ ManagersTyped
  /\ SchedulerTyped

\* The handlers read job->history, and the migration handlers
\* job->history->next, without a test (gw_dm_state_epilogs.c:588,
\* gw_dm_state_wrappers.c:278): the records are always there.
HistoryExists ==
  \A j \in Jobs :
    /\ job_state[j] \in BusyStates => host[j] # NoHost
    /\ job_state[j] \in MigrStates => prev[j] # NoHost

\* What makes HistoryExists inductive: whatever can take the job further needs a
\* record, the messages in the DM queue included, and none of it outlives the job.
NeedsRecord(j) ==
  \/ prev[j] # NoHost
  \/ job_state[j] \in BusyStates
  \/ em_sub[j] \/ em_retry[j] \/ runs[j] # {} \/ tm_req[j] # "NONE"
  \/ job_state[j] # "FREED" /\ \E a \in StateActions \union Callbacks : Queued(a, j)

NeedsNextRecord(j) ==
  \/ job_state[j] \in MigrStates
  \/ job_state[j] # "FREED" /\ \E a \in MigrStates : Queued(a, j)

HistoryInv ==
  \A j \in Jobs :
    /\ NeedsRecord(j) => host[j] # NoHost
    /\ NeedsNextRecord(j) => prev[j] # NoHost

\* A PENDING job is never forgotten: it is in the scheduler's list, or on its
\* way back from the scheduler, or about to enter PROLOG.  The DM tells the
\* scheduler of a job once, so a lost entry would leave it PENDING for ever.
NotLost ==
  \A j \in Jobs :
    job_state[j] = "PENDING" =>
      \/ entries[j] > 0
      \/ \E i \in 1..Len(inflight) : inflight[i][1] = j /\ inflight[i][2] # NoHost
      \/ Queued("PROLOG", j)

\* What makes NotLost inductive: gw_dm_schedule starts no round before it has the
\* answers of the last one, so that it does not drop any.
RoundOpen == inflight # <<>> => scheduling

\* At most one wrapper of a job runs on the hosts: a migrating job is not
\* submitted again before its first wrapper has ended.
OneRun == \A j \in Jobs : Cardinality(runs[j]) <= 1

\* A host is charged for every wrapper that runs on it; otherwise the scheduler
\* would send it more jobs than it has slots.
SlotsCharged ==
  \A h \in Hosts : used_slots[h] >= Cardinality({j \in Jobs : h \in runs[j]})

\* running_jobs of a host counts every job that was sent to it and has not left.
HostCharged ==
  \A h \in Hosts :
    running_jobs[h] >= Cardinality({j \in Jobs : job_state[j] \in BusyStates /\ host[j] = h})

\* running_jobs of the user, on which MAX_RUNNING_USER is enforced, counts every
\* job that was sent to a host and has not left it.
UserCharged ==
  user_running >= Cardinality({j \in Jobs : job_state[j] \in BusyStates})

\* No job is on a host and no message is on its way.
Quiet == dmq = <<>> /\ \A j \in Jobs : job_state[j] \notin BusyStates

\* Whatever the way in which the jobs left their hosts (end, failure of prolog,
\* wrapper or epilog, stop), the hosts get back every slot and every count.
AllReturned ==
  Quiet => \A h \in Hosts : used_slots[h] = 0 /\ running_jobs[h] = 0

\* The same for the user's running jobs.
UserReturned == Quiet => user_running = 0

\* A job with dependencies does not leave HOLD before each of them has ended
\* with the exit code it asked for (when no client releases it).
DepsRespected ==
  \A j \in Jobs : \A k \in Deps[j] :
    job_state[j] \in BusyStates \union {"PENDING", "ZOMBIE", "FAILED"}
      => /\ job_state[k] \in {"ZOMBIE", "FREED"}
         /\ TypeDep[j] = "OK" => exit_ok[k]
         /\ TypeDep[j] = "KO" => ~exit_ok[k]

\* gw_client.h:271: "The job will not be scheduled to any host until it receives
\* a RELEASE signal".  A held job is released or killed before anything else.
HeldStays ==
  [][\A j \in Jobs :
       job_state[j] = "HOLD" => job_state'[j] \in {"HOLD", "PENDING", "FREED"}]_vars

\* gw_client.h:268: "The job will be killed".  Once gw_dm_kill has accepted the
\* request, the job only goes on to be freed.
KillFinal ==
  [][\A j \in Jobs :
       job_state[j] \in {"KILL_CANCEL", "KILL_EPILOG"}
         => job_state'[j] \in {"KILL_CANCEL", "KILL_EPILOG", "FREED"}]_vars

-----------------------------------------------------------------------------
(* Fairness.  Each thread of gwd keeps running; a transfer and a wrapper   *)
(* that has been submitted end at last, and EM gives up after the retries  *)
(* of the template (strong fairness: a retry disables the end for a while).*)
(* gw_am_loop starts the timer's action only if it finds the queue empty   *)
(* after the timeout: a round is sure to come only because the clients     *)
(* leave the DM time (QueueDrains).  A round may leave a job out; a job    *)
(* that could have been sent in round after round is sent in one of them.  *)

\* The EM's final answer for the job.
EMEnd(j) == \E h \in Hosts : EMDone(j, h) \/ (EMFailed(j, h) /\ dmq' # dmq)

\* gw_am_loop finds the queue empty and runs the timer's action.
Timer == dmq = <<>> /\ Schedule

\* A round in which the job is sent to a host.
SentInRound(j) == Schedule /\ Sent(inflight', {j}) > 0

SchedulerFair(j) ==
  []<><<Schedule /\ ENABLED SentInRound(j)>>_vars => []<><<SentInRound(j)>>_vars

QueueDrains == []<>(dmq = <<>>)

Fairness ==
  /\ QueueDrains
  /\ WF_vars(\E j \in Jobs : DMStep(j))
  /\ WF_vars(ListenerStep)
  /\ SF_vars(Timer)
  /\ \A j \in Jobs :
       /\ SchedulerFair(j)
       /\ WF_vars(EMSubmit(j)) /\ WF_vars(EMRetry(j)) /\ SF_vars(EMEnd(j))
       /\ WF_vars(TMStep(j))

FairSpec == Spec /\ Fairness

\* Every job that was submitted is at last done, failed, stopped or freed.
JobsEnd ==
  \A j \in Jobs :
    job_state[j] = "PENDING" ~> job_state[j] \in {"ZOMBIE", "FAILED", "STOPPED", "FREED"}

\* A client that waits for a job is told of its end, however the job ends:
\* gw_dm_zombie, gw_dm_failed, GW_RM_KILL_SUCCESS or a missing job.
WaitersTold == \A j \in Jobs : "WAIT" \in conn[j] ~> "WAIT" \notin conn[j]

\* gw_client.h:290: a blocking KILL returns when "the action associated to the
\* signal is completed": the client of a kill is answered.
KillAnswered == \A j \in Jobs : "KILL" \in conn[j] ~> "KILL" \notin conn[j]

\* gw_client.h:109: "Once all these jobs have finished, the job will be released
\* by GridWay".
DepsReleased ==
  \A j \in Jobs :
    (job_state[j] = "HOLD" /\ \A k \in Deps[j] : job_state[k] = "ZOMBIE")
      ~> job_state[j] # "HOLD"
=============================================================================
