-------------------------- MODULE DispatchManager --------------------------
(***************************************************************************)
(* The dispatch manager (DM) of the GridWay daemon gwd: the life cycle of  *)
(* the jobs of one user, with the slot accounting of the hosts.            *)
(*                                                                         *)
(* The handlers of gridway-5.8/src/dm run one at a time on the DM action   *)
(* thread, in the order of its FIFO queue (dmq), while                     *)
(*   - the DM listener thread applies the scheduler's answers to the same  *)
(*     jobs (gw_dm_dispatch_job, gw_dm_uncheck_job),                       *)
(*   - the timer thread runs gw_dm_schedule,                               *)
(*   - the execution and transfer managers (EM, TM) work on a job and post *)
(*     their answers to the queue,                                         *)
(*   - the request manager (RM) posts the clients' requests.               *)
(* EM and TM are given by what they promise the DM: at most one answer to  *)
(* each request.                                                           *)
(*                                                                         *)
(* The code reads only the first two records of a job's history, so a      *)
(* history is the pair of their hosts, (host, prev).  A job uses one slot  *)
(* (NP = 1).  Statistics, logs, file lists and job arrays are left out.    *)
(***************************************************************************)
EXTENDS Integers, Sequences, FiniteSets

CONSTANTS
  Jobs,               \* job identifiers; gw_job_pool_allocate never reuses one
  Hosts,              \* hosts of the host pool
  NoHost,             \* no history record (history == NULL)
  UserOps,            \* the requests that clients make
  InitHold,           \* jobs submitted on hold (init_state HOLD)
  Deps,               \* Deps[j]: the jobs j depends on (job_deps)
  TypeDep,            \* TypeDep[j]: type_dep, "ANY" (-1), "OK" (-2), "KO" (-3)
  ReschedOnFailure,   \* jobs whose template has RESCHEDULE_ON_FAILURE
  PreWrapper,         \* jobs whose template has a PRE_WRAPPER
  WrapperBased,       \* jobs sent to a wrapper based execution MAD
  SuspensionTimeout,  \* jobs whose template sets SUSPENSION_TIMEOUT
  ReschedulingInterval, \* jobs whose template sets RESCHEDULING_INTERVAL
  Dispose,            \* gw_conf.dispose
  DISPATCH_CHUNK,     \* sched.conf: dispatches of one scheduling round
  MAX_RUNNING_RESOURCE, \* sched.conf: limit on the used slots of a host
  MAX_RUNNING_USER,   \* sched.conf: limit on the running jobs of a user
  SchedulerCrash,     \* the scheduler process may die and be reloaded
  HistoryFaults,      \* why gw_job_history_add may fail: an unloaded "MAD", the
                      \* "FILE" job.history cannot be opened
  MaxEntries,         \* bound: a client asks for RESCHEDULE, and gw_dm_check_job
                      \* finds a limit passed, only while the scheduler's list
                      \* has fewer entries of the job
  MaxRecords          \* bound: the scheduler sends a job to a host only while
                      \* its history has fewer records

ClientOps ==
  {"HOLD", "RELEASE", "KILL", "KILL_HARD", "STOP", "RESUME", "RESCHEDULE", "WAIT"}

ASSUME DMAssumption ==
  /\ NoHost \notin Hosts
  /\ IsFiniteSet(Hosts)
  /\ UserOps \subseteq ClientOps
  /\ InitHold \subseteq Jobs
  /\ Deps \in [Jobs -> SUBSET Jobs]
  /\ TypeDep \in [Jobs -> {"ANY", "OK", "KO"}]
  /\ ReschedOnFailure \subseteq Jobs
  /\ PreWrapper \subseteq Jobs
  /\ WrapperBased \subseteq Jobs
  /\ SuspensionTimeout \subseteq Jobs
  /\ ReschedulingInterval \subseteq Jobs
  /\ Dispose \in BOOLEAN
  /\ DISPATCH_CHUNK \in Nat
  /\ MAX_RUNNING_RESOURCE \in Nat \ {0}    \* the code takes 0 for no limit
  /\ MAX_RUNNING_USER \in Nat \ {0}
  /\ SchedulerCrash \in BOOLEAN
  /\ HistoryFaults \subseteq {"MAD", "FILE"}
  /\ MaxEntries \in Nat
  /\ MaxRecords \in Nat

VARIABLES
  job_state,     \* job_state[j]; "NEW" before submission, "FREED" after gw_job_pool_free
  reason,        \* history->reason of the newest record
  reschedule,    \* job->reschedule
  host,          \* history->host: the host of the newest record
  prev,          \* history->next->host: the host of the record before
  records,       \* gw_job_history_number_of_records
  deps,          \* gw_job_deps.deps[j]: dependencies not yet met
  exit_ok,       \* job->exit_code = 0
  used_slots,    \* used_slots[h] of the host pool
  running_jobs,  \* running_jobs[h] of the host pool
  user_running,  \* running_jobs of the user
  dmq,           \* the DM action queue: a sequence of <<action, job>>
  conn,          \* conn[j]: the requests on j whose client waits for the answer
  waiting,       \* job->client_waiting > 0
  em_state,      \* job->em_state
  em_sub,        \* a GW_EM_SUBMIT of the job is in the EM queue
  em_retry,      \* history->counter # -1: EM will submit the job again
  runs,          \* hosts where a wrapper submitted by EM has not yet ended
  tm_req,        \* the transfer that TM performs for the job
  entries,       \* entries of the job in the scheduler's list
  inflight,      \* scheduler answers in the pipe: a sequence of <<job, host>>
  scheduling     \* gw_dm.scheduling: a round was asked for and has not ended

jobv  == <<reason, reschedule, host, prev, records>>
depv  == <<deps, exit_ok>>
hostv == <<used_slots, running_jobs, user_running>>
rmv   == <<conn, waiting>>
emv   == <<em_state, em_sub, em_retry, runs>>
schv  == <<entries, inflight, scheduling>>
vars  == <<job_state, jobv, depv, hostv, dmq, rmv, emv, tm_req, schv>>

-----------------------------------------------------------------------------
(* States and actions.                                                     *)

EpilogStates == {"EPILOG", "EPILOG_STD", "EPILOG_RESTART", "EPILOG_FAIL",
                 "STOP_EPILOG", "KILL_EPILOG", "MIGR_EPILOG"}
CancelStates == {"STOP_CANCEL", "KILL_CANCEL", "MIGR_CANCEL"}
ExecStates   == {"PRE_WRAPPER", "WRAPPER"} \union CancelStates
MigrStates   == {"MIGR_CANCEL", "MIGR_PROLOG", "MIGR_EPILOG"}
IdleStates   == {"PENDING", "HOLD", "STOPPED", "FAILED", "ZOMBIE"}

\* The job has been sent to a host and its host is still charged for it.
BusyStates   == {"PROLOG", "MIGR_PROLOG"} \union ExecStates \union EpilogStates

JobStates == {"NEW", "FREED"} \union IdleStates \union BusyStates

EMStates  == {"INIT", "PENDING", "SUSPENDED", "ACTIVE", "FAILED", "DONE"}
Submitted == {"PENDING", "SUSPENDED", "ACTIVE"}

Reasons == {"NONE", "USER_REQUESTED", "SUSPENSION_TIME", "RESCHEDULING_TIMEOUT",
            "SELF_MIGRATION", "PERFORMANCE", "KILL", "STOP_RESUME",
            "EXECUTION_ERROR"}

\* GW_DM_STATE_X, which takes a job to state X, is written "X".
StateActions ==
  {"PENDING", "STOPPED", "ZOMBIE", "FAILED", "PROLOG", "MIGR_PROLOG",
   "PRE_WRAPPER", "WRAPPER", "MIGR_CANCEL"} \union EpilogStates

\* The answers of the TM and of the EM (the TM's also of gw_dm_prolog itself).
Callbacks == {"PROLOG_DONE", "PROLOG_FAILED", "EPILOG_DONE", "EPILOG_FAILED",
              "WRAPPER_DONE", "WRAPPER_FAILED"}

DMActions == ClientOps \union StateActions \union Callbacks

-----------------------------------------------------------------------------
(* Helpers.                                                                *)

One(b) == IF b THEN 1 ELSE 0

SetState(j, s) == job_state' = [job_state EXCEPT ![j] = s]

SetReason(j, r) == reason' = [reason EXCEPT ![j] = r]

\* The DM thread takes <<a, j>> from its queue and finds the job in the pool.
Handle(a, j) ==
  /\ dmq # <<>>
  /\ Head(dmq) = <<a, j>>
  /\ job_state[j] # "FREED"

Done == dmq' = Tail(dmq)

DoneAndTrigger(a, j) == dmq' = Append(Tail(dmq), <<a, j>>)

\* gw_host_dec_uslots, gw_host_dec_rjobs, gw_host_inc_slots_nb
DecUslots(h) == used_slots' = [used_slots EXCEPT ![h] = @ - 1]

\* Mutant: a floor at one instead of zero.
DecRjobsFloor(h) == running_jobs' = [running_jobs EXCEPT ![h] = IF @ > 1 THEN @ - 1 ELSE @]

DecRjobs(h) == running_jobs' = [running_jobs EXCEPT ![h] = @ - 1]

IncSlots(h) ==
  /\ used_slots'   = [used_slots EXCEPT ![h] = @ + 1]
  /\ running_jobs' = [running_jobs EXCEPT ![h] = @ + 1]

\* The RM answers the clients that wait for one of the requests ops on j.
Answer(j, ops) == conn' = [conn EXCEPT ![j] = @ \ ops]

\* gw_dm_mad_job_schedule and gw_dm_mad_job_del: the scheduler appends an entry
\* without looking for an earlier one, and deletes at most one.
JobSchedule(j) == entries' = [entries EXCEPT ![j] = @ + 1]

\* Mutant: the length of the list is decremented without looking for the job.
JobDelUnguarded(j) == entries' = [entries EXCEPT ![j] = @ - 1]

JobDel(j) == entries' = [entries EXCEPT ![j] = @ - One(@ > 0)]

\* Leaving WRAPPER: "We do not need to re-schedule this job".
ClearReschedule(j) ==
  /\ reschedule' = [reschedule EXCEPT ![j] = FALSE]
  /\ IF reschedule[j] THEN JobDel(j) ELSE UNCHANGED entries

\* Mutant: the new record overwrites the newest one.
HistoryOverwrite(j, h) ==
  /\ host'     = [host EXCEPT ![j] = h]
  /\ records'  = [records EXCEPT ![j] = @ + 1]
  /\ reason'   = [reason EXCEPT ![j] = "NONE"]
  /\ em_retry' = [em_retry EXCEPT ![j] = FALSE]
  /\ UNCHANGED prev

\* gw_job_history_add: push a record for host h.
HistoryAdd(j, h) ==
  /\ prev'     = [prev EXCEPT ![j] = host[j]]
  /\ host'     = [host EXCEPT ![j] = h]
  /\ records'  = [records EXCEPT ![j] = @ + 1]
  /\ reason'   = [reason EXCEPT ![j] = "NONE"]
  /\ em_retry' = [em_retry EXCEPT ![j] = FALSE]

IncUser == user_running' = user_running + 1

\* Mutant: the newest record instead of the one before.
NewestRecordHost(j) == host[j]

\* history->next->host: where a migrating job ran before.
NextRecordHost(j) == prev[j]

\* Where a job whose execution failed goes.
OnFailure(j) == IF j \in ReschedOnFailure THEN "PENDING" ELSE "FAILED"

\* gw_job_pool_free.  The job and its history are destroyed; what EM and TM
\* still hold for it is dropped when they find no job in the pool.
PoolFree(j) ==
  /\ SetState(j, "FREED")
  /\ reason'     = [reason EXCEPT ![j] = "NONE"]
  /\ reschedule' = [reschedule EXCEPT ![j] = FALSE]
  /\ host'       = [host EXCEPT ![j] = NoHost]
  /\ prev'       = [prev EXCEPT ![j] = NoHost]
  /\ records'    = [records EXCEPT ![j] = 0]
  /\ deps'       = [deps EXCEPT ![j] = {}]
  /\ UNCHANGED exit_ok                  \* of a freed job: never read again
  /\ waiting'    = [waiting EXCEPT ![j] = FALSE]
  /\ em_state'   = [em_state EXCEPT ![j] = "INIT"]
  /\ em_sub'     = [em_sub EXCEPT ![j] = FALSE]
  /\ em_retry'   = [em_retry EXCEPT ![j] = FALSE]
  /\ runs'       = [runs EXCEPT ![j] = {}]
  /\ tm_req'     = [tm_req EXCEPT ![j] = "NONE"]
  /\ IF job_state[j] = "PENDING" \/ (job_state[j] = "WRAPPER" /\ reschedule[j])
       THEN JobDel(j)
       ELSE UNCHANGED entries
  /\ Answer(j, {"KILL", "WAIT"})        \* GW_RM_KILL_SUCCESS

-----------------------------------------------------------------------------
(* Submission and client requests.                                         *)

\* gw_dm_jalloc
Submit(j) ==
  /\ job_state[j] = "NEW"
  /\ IF j \in InitHold
       THEN SetState(j, "HOLD") /\ UNCHANGED entries
       ELSE SetState(j, "PENDING") /\ JobSchedule(j)
  /\ deps' = [deps EXCEPT ![j] = Deps[j]]
  /\ UNCHANGED <<exit_ok, jobv, hostv, dmq, rmv, emv, tm_req, inflight, scheduling>>

\* gw_rm_connection: authorise, register the connection, trigger the DM.
\* A KILL_HARD is not registered: its client does not wait.
Request(op, j) ==
  /\ job_state[j] \notin {"NEW", "FREED"}
  /\ op \notin conn[j]
  /\ op = "RESCHEDULE" => entries[j] < MaxEntries
  /\ op = "KILL_HARD" => \A i \in 1..Len(dmq) : dmq[i] # <<op, j>>
  /\ conn' = [conn EXCEPT ![j] = @ \union ({op} \ {"KILL_HARD"})]
  /\ dmq'  = Append(dmq, <<op, j>>)
  /\ UNCHANGED <<job_state, jobv, depv, hostv, waiting, emv, tm_req, schv>>

\* Every handler drops its message when the job is no longer in the pool; the
\* handlers of client requests answer with a failure.
MissingJob(a, j) ==
  /\ dmq # <<>>
  /\ Head(dmq) = <<a, j>>
  /\ job_state[j] = "FREED"
  /\ Done
  /\ Answer(j, IF a = "KILL_HARD" THEN {"KILL"} ELSE {a})
  /\ UNCHANGED <<job_state, jobv, depv, hostv, waiting, emv, tm_req, schv>>

\* gw_dm_hold
Hold(j) ==
  /\ Handle("HOLD", j)
  /\ Done
  /\ Answer(j, {"HOLD"})
  /\ IF job_state[j] = "PENDING"
       THEN SetState(j, "HOLD") /\ JobDel(j)
       ELSE UNCHANGED <<job_state, entries>>
  /\ UNCHANGED <<jobv, depv, hostv, waiting, emv, tm_req, inflight, scheduling>>

\* gw_dm_release
Release(j) ==
  /\ Handle("RELEASE", j)
  /\ Done
  /\ Answer(j, {"RELEASE"})
  /\ IF job_state[j] = "HOLD"
       THEN SetState(j, "PENDING") /\ JobSchedule(j)
       ELSE UNCHANGED <<job_state, entries>>
  /\ UNCHANGED <<jobv, depv, hostv, waiting, emv, tm_req, inflight, scheduling>>

\* gw_dm_kill: a job that is nowhere is freed, a running one is cancelled.
Kill(j) ==
  /\ Handle("KILL", j)
  /\ Done
  /\ \/ /\ job_state[j] \in IdleStates
        /\ PoolFree(j)
        /\ UNCHANGED <<hostv, inflight, scheduling>>
     \/ /\ job_state[j] = "WRAPPER"
        /\ SetState(j, "KILL_CANCEL")
        /\ SetReason(j, "KILL")
        /\ ClearReschedule(j)
        /\ UNCHANGED <<host, prev, records, depv, hostv, rmv, emv, tm_req, inflight, scheduling>>
     \/ /\ job_state[j] \notin IdleStates \union {"WRAPPER"}
        /\ Answer(j, {"KILL"})
        /\ UNCHANGED <<job_state, jobv, depv, hostv, waiting, emv, tm_req, schv>>

\* gw_dm_kill_hard: gives back what the job's state says its hosts are charged
\* for and frees the job whatever it is doing.
KillHard(j) ==
  LET s == job_state[j]
      heldSlot == s \in {"PROLOG", "MIGR_PROLOG", "MIGR_EPILOG"} \union ExecStates
  IN  /\ Handle("KILL_HARD", j)
      /\ Done
      /\ used_slots' = [h \in Hosts |-> used_slots[h]
                          - One(heldSlot /\ h = host[j])
                          - One(s = "MIGR_CANCEL" /\ h = prev[j])]
      /\ running_jobs' = [h \in Hosts |-> running_jobs[h]
                            - One(s \in BusyStates /\ h = host[j])
                            - One(s \in MigrStates /\ h = prev[j])]
      /\ PoolFree(j)
      /\ UNCHANGED <<user_running, inflight, scheduling>>

\* gw_dm_stop
Stop(j) ==
  /\ Handle("STOP", j)
  /\ Done
  /\ \/ /\ job_state[j] = "WRAPPER"
        /\ SetState(j, "STOP_CANCEL")
        /\ SetReason(j, "STOP_RESUME")
        /\ ClearReschedule(j)
        /\ UNCHANGED conn
     \/ /\ job_state[j] # "WRAPPER"
        /\ Answer(j, {"STOP"})
        /\ UNCHANGED <<job_state, reason, reschedule, entries>>
  /\ UNCHANGED <<host, prev, records, depv, hostv, waiting, emv, tm_req, inflight, scheduling>>

\* gw_dm_resume
Resume(j) ==
  /\ Handle("RESUME", j)
  /\ Done
  /\ Answer(j, {"RESUME"})
  /\ IF job_state[j] = "STOPPED"
       THEN /\ SetState(j, "PENDING")
            /\ em_state' = [em_state EXCEPT ![j] = "INIT"]
            /\ JobSchedule(j)
       ELSE UNCHANGED <<job_state, em_state, entries>>
  /\ UNCHANGED <<jobv, depv, hostv, waiting, em_sub, em_retry, runs, tm_req,
                 inflight, scheduling>>

\* gw_dm_reschedule
Reschedule(j) ==
  /\ Handle("RESCHEDULE", j)
  /\ Done
  /\ Answer(j, {"RESCHEDULE"})
  /\ \/ /\ job_state[j] = "WRAPPER"
        /\ reschedule' = [reschedule EXCEPT ![j] = TRUE]
        /\ SetReason(j, "USER_REQUESTED")
        /\ JobSchedule(j)
        /\ UNCHANGED <<job_state, em_state>>
     \/ /\ job_state[j] = "FAILED"
        /\ SetState(j, "PENDING")
        /\ em_state' = [em_state EXCEPT ![j] = "INIT"]
        /\ SetReason(j, "USER_REQUESTED")
        /\ JobSchedule(j)
        /\ UNCHANGED reschedule
     \/ /\ job_state[j] \notin {"WRAPPER", "FAILED"}
        /\ UNCHANGED <<job_state, reason, reschedule, em_state, entries>>
  /\ UNCHANGED <<host, prev, records, depv, hostv, waiting, em_sub, em_retry, runs, tm_req,
                 inflight, scheduling>>

\* gw_dm_wait
Wait(j) ==
  /\ Handle("WAIT", j)
  /\ Done
  /\ IF job_state[j] \in {"ZOMBIE", "FAILED"}
       THEN Answer(j, {"WAIT"}) /\ UNCHANGED waiting
       ELSE waiting' = [waiting EXCEPT ![j] = TRUE] /\ UNCHANGED conn
  /\ UNCHANGED <<job_state, jobv, depv, hostv, emv, tm_req, schv>>

-----------------------------------------------------------------------------
(* Scheduling.                                                             *)

\* Answers of the round s that send a job of J to a host.
Sent(s, J) == Cardinality({i \in DOMAIN s : s[i][1] \in J /\ s[i][2] # NoHost})

SentTo(s, h) == Cardinality({i \in DOMAIN s : s[i][2] = h})

\* The rounds that the scheduler can produce from the list e: at most
\* DISPATCH_CHUNK answers, one per entry, within the limits on the hosts' used
\* slots and on the user's running jobs; NoHost is "FAILED reschedule".
Rounds(e, resched) ==
  {s \in UNION {[1..n -> Jobs \X (Hosts \union {NoHost})] : n \in 0..DISPATCH_CHUNK} :
     /\ \A j \in Jobs : Sent(s, {j}) <= e[j] /\ records[j] + Sent(s, {j}) <= MaxRecords
     /\ \A i \in DOMAIN s : s[i][2] = NoHost => resched[s[i][1]] /\ e[s[i][1]] > 0
     /\ \A i \in DOMAIN s :
          s[i][2] # NoHost =>
            /\ used_slots[s[i][2]] + SentTo(s, s[i][2]) <= MAX_RUNNING_RESOURCE
            /\ user_running + Sent(s, Jobs) <= MAX_RUNNING_USER}

\* gw_dm_check_job: may the limits of job j be checked?
Checkable(j) ==
  /\ job_state[j] = "WRAPPER"
  /\ reason[j] = "NONE"
  /\ entries[j] < MaxEntries     \* the bound

\* gw_dm_check_job_suspension and gw_dm_check_job_rescheduling send an entry for
\* each job that passed a limit; a job over both limits gets both.
CheckedEntries(susp, late) ==
  [j \in Jobs |-> entries[j] + One(j \in susp) + One(j \in late)]

\* gw_dm_schedule: one sweep of gw_dm_check_job over the pool, then a round of
\* the scheduler.
Schedule ==
  /\ ~scheduling
  /\ scheduling' = TRUE
  /\ \E susp \in SUBSET {j \in SuspensionTimeout :
                           Checkable(j) /\ em_state[j] \in {"PENDING", "SUSPENDED"}},
        late \in SUBSET {j \in ReschedulingInterval : Checkable(j)} :
       /\ reschedule' = [j \in Jobs |-> reschedule[j] \/ j \in susp \union late]
       /\ reason' = [j \in Jobs |-> IF j \in late THEN "RESCHEDULING_TIMEOUT"
                                    ELSE IF j \in susp THEN "SUSPENSION_TIME"
                                    ELSE reason[j]]
       /\ \E s \in Rounds(CheckedEntries(susp, late), reschedule') :
            /\ inflight' = s
            /\ entries' = [j \in Jobs |-> CheckedEntries(susp, late)[j] - Sent(s, {j})]
  /\ UNCHANGED <<job_state, host, prev, records, depv, hostv, dmq, rmv, emv, tm_req>>

\* The DM listener reads the next answer of the scheduler.
Receive(j, h) ==
  /\ inflight # <<>>
  /\ Head(inflight) = <<j, h>>
  /\ inflight' = Tail(inflight)

\* gw_dm_dispatch_job, first branch: the state stays PENDING until the DM
\* thread handles STATE_PROLOG.
DispatchPending(j, h) ==
  /\ Receive(j, h)
  /\ h # NoHost
  /\ job_state[j] = "PENDING"
  /\ HistoryAdd(j, h)
  /\ IncSlots(h)
  /\ IncUser
  /\ dmq' = Append(dmq, <<"PROLOG", j>>)
  /\ UNCHANGED <<job_state, reschedule, depv, rmv, em_state, em_sub, runs, tm_req,
                 entries, scheduling>>

\* A suspended job that became active again is not migrated.
MigrationAborted(j) ==
  job_state[j] = "WRAPPER" /\ reason[j] = "SUSPENSION_TIME" /\ em_state[j] = "ACTIVE"

\* gw_dm_dispatch_job, second branch.
DispatchMigration(j, h) ==
  /\ Receive(j, h)
  /\ h # NoHost
  /\ job_state[j] = "WRAPPER"
  /\ ~MigrationAborted(j)
  /\ HistoryAdd(j, h)
  /\ reschedule' = [reschedule EXCEPT ![j] = FALSE]
  /\ IncSlots(h)
  /\ dmq' = Append(dmq, <<"MIGR_CANCEL", j>>)
  /\ UNCHANGED <<job_state, depv, user_running, rmv, em_state, em_sub, runs, tm_req,
                 entries, scheduling>>

\* gw_dm_uncheck_job, for a failed rescheduling and for an aborted migration.
UncheckJob(j, h) ==
  /\ Receive(j, h)
  /\ h = NoHost \/ MigrationAborted(j)
  /\ IF host[j] # NoHost /\ job_state[j] \notin {"PENDING", "FREED"}
       THEN /\ reschedule' = [reschedule EXCEPT ![j] = FALSE]
            /\ SetReason(j, "NONE")
            /\ JobDel(j)
       ELSE UNCHANGED <<reschedule, reason, entries>>
  /\ UNCHANGED <<job_state, host, prev, records, depv, hostv, dmq, rmv, emv, tm_req, scheduling>>

\* gw_dm_dispatch_job returns -1: the job is gone, it is in a state that cannot
\* be dispatched, or no history record can be added for the host.
DispatchRefused(j, h) ==
  /\ Receive(j, h)
  /\ h # NoHost
  /\ \/ job_state[j] \notin {"PENDING", "WRAPPER"}
     \/ "MAD" \in HistoryFaults /\ ~MigrationAborted(j)
  /\ UNCHANGED <<job_state, jobv, depv, hostv, dmq, rmv, emv, tm_req, entries, scheduling>>

\* gw_job_history_add opens the history file after it has pushed the record: when
\* that fails the job is not dispatched, and the record of host h stays.
DispatchUnsaved(j, h) ==
  /\ "FILE" \in HistoryFaults
  /\ Receive(j, h)
  /\ h # NoHost
  /\ job_state[j] \in {"PENDING", "WRAPPER"}
  /\ ~MigrationAborted(j)
  /\ HistoryAdd(j, h)
  /\ UNCHANGED <<job_state, reschedule, depv, hostv, dmq, rmv, em_state, em_sub, runs, tm_req,
                 entries, scheduling>>

\* Mutant: the listener forgets to clear gw_dm.scheduling.
ScheduleEndStuck ==
  /\ scheduling
  /\ inflight = <<>>
  /\ UNCHANGED vars

\* SCHEDULE_END
ScheduleEnd ==
  /\ scheduling
  /\ inflight = <<>>
  /\ scheduling' = FALSE
  /\ UNCHANGED <<job_state, jobv, depv, hostv, dmq, rmv, emv, tm_req, entries, inflight>>

\* Mutant: a reloaded scheduler is not told of the jobs in the pool.
NoRecoveredEntries == [j \in Jobs |-> 0]

\* gw_job_pool_dm_recover gives the new scheduler the PENDING jobs only.
RecoveredEntries == [j \in Jobs |-> One(job_state[j] = "PENDING")]

\* gw_dm_listener, read error: the MAD is reloaded.
SchedulerReload ==
  /\ SchedulerCrash
  /\ inflight' = <<>>
  /\ entries' = RecoveredEntries
  /\ scheduling' = FALSE
  /\ UNCHANGED <<job_state, jobv, depv, hostv, dmq, rmv, emv, tm_req>>

-----------------------------------------------------------------------------
(* Prolog and wrapper.                                                     *)

\* gw_dm_prolog and gw_dm_migr_prolog: no state is checked.  The environment
\* file may not be writable, and then the prolog fails.
Prolog(j, s) ==
  /\ Handle(s, j)
  /\ SetState(j, s)
  /\ \/ tm_req' = [tm_req EXCEPT ![j] = "PROLOG"] /\ Done
     \/ DoneAndTrigger("PROLOG_FAILED", j) /\ UNCHANGED tm_req
  /\ UNCHANGED <<jobv, depv, hostv, rmv, emv, schv>>

\* gw_dm_prolog_done_cb
PrologDone(j) ==
  /\ Handle("PROLOG_DONE", j)
  /\ \/ job_state[j] = "PROLOG" /\ j \in PreWrapper /\ DoneAndTrigger("PRE_WRAPPER", j)
     \/ job_state[j] = "PROLOG" /\ j \notin PreWrapper /\ DoneAndTrigger("WRAPPER", j)
     \/ job_state[j] = "MIGR_PROLOG" /\ DoneAndTrigger("MIGR_EPILOG", j)
     \/ job_state[j] \notin {"PROLOG", "MIGR_PROLOG"} /\ Done
  /\ UNCHANGED <<job_state, jobv, depv, hostv, rmv, emv, tm_req, schv>>

\* gw_dm_prolog_failed_cb
PrologFailed(j) ==
  /\ Handle("PROLOG_FAILED", j)
  /\ DoneAndTrigger(OnFailure(j), j)
  /\ IF job_state[j] = "MIGR_PROLOG" THEN DecRjobs(NextRecordHost(j)) ELSE UNCHANGED running_jobs
  /\ SetReason(j, "EXECUTION_ERROR")
  /\ DecUslots(host[j])
  /\ UNCHANGED <<job_state, reschedule, host, prev, records, depv, user_running, rmv, emv,
                 tm_req, schv>>

\* gw_dm_pre_wrapper and gw_dm_wrapper
Wrapper(j, s) ==
  /\ Handle(s, j)
  /\ Done
  /\ SetState(j, s)
  /\ em_state' = [em_state EXCEPT ![j] = "INIT"]
  /\ em_sub'   = [em_sub EXCEPT ![j] = TRUE]
  /\ UNCHANGED <<jobv, depv, hostv, rmv, em_retry, runs, tm_req, schv>>

\* gw_dm_wrapper_done_cb
WrapperDone(j) ==
  /\ Handle("WRAPPER_DONE", j)
  /\ em_state' = [em_state EXCEPT ![j] = "INIT"]
  /\ \/ /\ job_state[j] = "PRE_WRAPPER"
        /\ DoneAndTrigger("WRAPPER", j)
        /\ UNCHANGED <<used_slots, reschedule, entries>>
     \/ /\ job_state[j] = "WRAPPER"
        /\ DecUslots(host[j])
        /\ ClearReschedule(j)
        /\ DoneAndTrigger(IF j \in WrapperBased THEN "EPILOG_STD" ELSE "EPILOG", j)
     \/ /\ job_state[j] = "STOP_CANCEL"
        /\ DecUslots(host[j])
        /\ DoneAndTrigger("STOP_EPILOG", j)
        /\ UNCHANGED <<reschedule, entries>>
     \/ /\ job_state[j] = "KILL_CANCEL"
        /\ DecUslots(host[j])
        /\ DoneAndTrigger("KILL_EPILOG", j)
        /\ UNCHANGED <<reschedule, entries>>
     \/ /\ job_state[j] = "MIGR_CANCEL"
        /\ DecUslots(NextRecordHost(j))
        /\ DoneAndTrigger("MIGR_PROLOG", j)
        /\ UNCHANGED <<reschedule, entries>>
     \/ /\ job_state[j] \notin ExecStates
        /\ Done
        /\ UNCHANGED <<used_slots, reschedule, entries>>
  /\ UNCHANGED <<job_state, reason, host, prev, records, depv, running_jobs, user_running, rmv,
                 em_sub, em_retry, runs, tm_req, inflight, scheduling>>

\* gw_dm_wrapper_failed_cb: whatever the state, the newest record's host is
\* given its slot back and the job goes to EPILOG_FAIL.
WrapperFailed(j) ==
  /\ Handle("WRAPPER_FAILED", j)
  /\ em_state' = [em_state EXCEPT ![j] = "INIT"]
  /\ IF job_state[j] = "WRAPPER" THEN ClearReschedule(j) ELSE UNCHANGED <<reschedule, entries>>
  /\ SetReason(j, "EXECUTION_ERROR")
  /\ DecUslots(host[j])
  /\ DoneAndTrigger("EPILOG_FAIL", j)
  /\ UNCHANGED <<job_state, host, prev, records, depv, running_jobs, user_running, rmv,
                 em_sub, em_retry, runs, tm_req, inflight, scheduling>>

\* Mutant: the prolog on the new host does not wait for the cancelled wrapper.
MigrCancelNoWait(j) ==
  /\ Handle("MIGR_CANCEL", j)
  /\ IF job_state[j] = "WRAPPER" /\ em_state[j] # "DONE"
       THEN SetState(j, "MIGR_CANCEL") /\ DoneAndTrigger("MIGR_PROLOG", j)
       ELSE Done /\ UNCHANGED job_state
  /\ UNCHANGED <<jobv, depv, hostv, rmv, emv, tm_req, schv>>

\* gw_dm_migr_cancel: "Check we still need to migrate this job".
MigrCancel(j) ==
  /\ Handle("MIGR_CANCEL", j)
  /\ Done
  /\ IF job_state[j] = "WRAPPER" /\ em_state[j] # "DONE"
       THEN SetState(j, "MIGR_CANCEL")
       ELSE UNCHANGED job_state
  /\ UNCHANGED <<jobv, depv, hostv, rmv, emv, tm_req, schv>>

-----------------------------------------------------------------------------
(* Epilogs and final states.                                               *)

\* gw_dm_epilog_std, _migr, _stop, _kill, _fail, gw_dm_epilog, _restart
Epilog(j, s) ==
  /\ Handle(s, j)
  /\ Done
  /\ SetState(j, s)
  /\ tm_req' = [tm_req EXCEPT ![j] = "EPILOG"]
  /\ UNCHANGED <<jobv, depv, hostv, rmv, emv, schv>>

\* What gw_dm_epilog_parse_wrapper_std finds in the wrapper's output: an exit
\* code, a request to migrate, a slowdown, or nothing.
EpilogDoneStd(j) ==
  /\ Handle("EPILOG_DONE", j)
  /\ job_state[j] = "EPILOG_STD"
  /\ \/ /\ DoneAndTrigger("EPILOG", j)
        /\ \E ok \in BOOLEAN : exit_ok' = [exit_ok EXCEPT ![j] = ok]
        /\ UNCHANGED reason
     \/ /\ DoneAndTrigger("EPILOG_RESTART", j)
        /\ \E r \in {"SELF_MIGRATION", "PERFORMANCE", "EXECUTION_ERROR"} : SetReason(j, r)
        /\ UNCHANGED exit_ok
  /\ UNCHANGED <<job_state, reschedule, host, prev, records, deps, hostv, rmv, emv, tm_req, schv>>

EpilogFailedStd(j) ==
  /\ Handle("EPILOG_FAILED", j)
  /\ job_state[j] = "EPILOG_STD"
  /\ SetReason(j, "EXECUTION_ERROR")
  /\ DoneAndTrigger("EPILOG_RESTART", j)
  /\ UNCHANGED <<job_state, reschedule, host, prev, records, depv, hostv, rmv, emv, tm_req, schv>>

\* The part that gw_dm_epilog_done_cb and gw_dm_epilog_failed_cb share.
EpilogEnded(j) ==
  /\ Handle("EPILOG_DONE", j) \/ Handle("EPILOG_FAILED", j)
  /\ \/ /\ job_state[j] = "KILL_EPILOG"
        /\ DoneAndTrigger("ZOMBIE", j)
        /\ UNCHANGED running_jobs
     \/ /\ job_state[j] = "MIGR_EPILOG"
        /\ DoneAndTrigger("WRAPPER", j)
        /\ DecRjobs(NextRecordHost(j))
     \/ /\ job_state[j] = "STOP_EPILOG"
        /\ DoneAndTrigger("STOPPED", j)
        /\ UNCHANGED running_jobs
     \/ /\ job_state[j] = "EPILOG_RESTART"
        /\ DoneAndTrigger(IF reason[j] \in {"PERFORMANCE", "SELF_MIGRATION"}
                            THEN "PENDING" ELSE OnFailure(j), j)
        /\ UNCHANGED running_jobs
     \/ /\ job_state[j] \notin EpilogStates
        /\ Done
        /\ UNCHANGED running_jobs
  /\ UNCHANGED <<job_state, jobv, depv, used_slots, user_running, rmv, emv, tm_req, schv>>

\* gw_dm_epilog_done_cb, states EPILOG and EPILOG_FAIL
EpilogDone(j) ==
  /\ Handle("EPILOG_DONE", j)
  /\ \/ job_state[j] = "EPILOG" /\ DoneAndTrigger("ZOMBIE", j)
     \/ job_state[j] = "EPILOG_FAIL" /\ DoneAndTrigger(OnFailure(j), j)
  /\ UNCHANGED <<job_state, jobv, depv, hostv, rmv, emv, tm_req, schv>>

\* gw_dm_epilog_failed_cb, states EPILOG and EPILOG_FAIL
EpilogFailed(j) ==
  /\ Handle("EPILOG_FAILED", j)
  /\ job_state[j] \in {"EPILOG", "EPILOG_FAIL"}
  /\ SetReason(j, "EXECUTION_ERROR")
  /\ DoneAndTrigger(OnFailure(j), j)
  /\ UNCHANGED <<job_state, reschedule, host, prev, records, depv, hostv, rmv, emv, tm_req, schv>>

\* Mutant: only the host's count is decremented.
LeaveHostKeepUser(j) ==
  /\ DecRjobs(host[j])
  /\ UNCHANGED <<used_slots, user_running>>

\* The job leaves its host: user and host running jobs are decremented.
LeaveHost(j) ==
  /\ user_running' = user_running - 1
  /\ DecRjobs(host[j])
  /\ UNCHANGED used_slots

\* gw_dm_pending
Pending(j) ==
  /\ Handle("PENDING", j)
  /\ Done
  /\ SetState(j, "PENDING")
  /\ LeaveHost(j)
  /\ JobSchedule(j)
  /\ UNCHANGED <<jobv, depv, rmv, emv, tm_req, inflight, scheduling>>

\* gw_dm_stopped
Stopped(j) ==
  /\ Handle("STOPPED", j)
  /\ Done
  /\ SetState(j, "STOPPED")
  /\ LeaveHost(j)
  /\ Answer(j, {"STOP"})
  /\ UNCHANGED <<jobv, depv, waiting, emv, tm_req, schv>>

\* Mutant: the waiting clients are told of a finished job only.
FailedSilently(j) ==
  /\ Handle("FAILED", j)
  /\ Done
  /\ SetState(j, "FAILED")
  /\ LeaveHost(j)
  /\ UNCHANGED <<jobv, depv, rmv, emv, tm_req, schv>>

\* gw_dm_failed
Failed(j) ==
  /\ Handle("FAILED", j)
  /\ Done
  /\ SetState(j, "FAILED")
  /\ LeaveHost(j)
  /\ waiting' = [waiting EXCEPT ![j] = FALSE]
  /\ IF waiting[j] THEN Answer(j, {"WAIT"}) ELSE UNCHANGED conn
  /\ UNCHANGED <<jobv, depv, emv, tm_req, schv>>

\* Mutant: any dependency releases the job.
AnyDepReleases(k, j) == j \in deps[k]

\* The dependency j is the last one of k that was missing.
LastDep(k, j) == deps[k] = {j}

\* Held job k depends on job j and accepts its exit code.
MeetsDep(k, j) ==
  /\ job_state[k] = "HOLD"
  /\ j \in deps[k]
  /\ TypeDep[k] = "ANY" \/ (TypeDep[k] = "OK" <=> exit_ok[j])

\* gw_job_pool_dep_check: job j has ended, the jobs for which it was the last
\* dependency are released.
DepCheck(j) ==
  LET freed(k) == MeetsDep(k, j) /\ LastDep(k, j)
  IN  /\ deps' = [k \in Jobs |-> IF MeetsDep(k, j) THEN deps[k] \ {j} ELSE deps[k]]
      /\ job_state' = [k \in Jobs |-> IF k = j THEN "ZOMBIE"
                                      ELSE IF freed(k) THEN "PENDING" ELSE job_state[k]]
      /\ entries' = [k \in Jobs |-> entries[k] + One(freed(k))]

\* gw_dm_zombie
Zombie(j) ==
  /\ Handle("ZOMBIE", j)
  /\ \/ /\ job_state[j] = "EPILOG"
        /\ SetReason(j, "NONE")
        /\ waiting' = [waiting EXCEPT ![j] = FALSE]
        /\ IF waiting[j]
             THEN Answer(j, {"WAIT"}) /\ Done
             ELSE /\ UNCHANGED conn
                  /\ IF Dispose THEN DoneAndTrigger("KILL", j) ELSE Done
        /\ LeaveHost(j)
        /\ DepCheck(j)
        /\ UNCHANGED <<exit_ok, reschedule, host, prev, records, emv, tm_req, inflight, scheduling>>
     \/ /\ job_state[j] = "KILL_EPILOG"
        /\ Done
        /\ LeaveHost(j)
        /\ PoolFree(j)
        /\ UNCHANGED <<inflight, scheduling>>
     \/ /\ job_state[j] \notin {"EPILOG", "KILL_EPILOG"}
        /\ Done
        /\ UNCHANGED <<job_state, jobv, depv, hostv, rmv, emv, tm_req, schv>>

-----------------------------------------------------------------------------
(* What the EM and the TM promise.                                         *)

\* The EM handles GW_EM_SUBMIT: the wrapper is sent to the host of the newest
\* record, or no RSL can be written for it.
EMSubmit(j) ==
  /\ em_sub[j]
  /\ em_sub'   = [em_sub EXCEPT ![j] = FALSE]
  /\ em_retry' = [em_retry EXCEPT ![j] = FALSE]
  /\ \/ /\ em_state' = [em_state EXCEPT ![j] = "INIT"]
        /\ runs' = [runs EXCEPT ![j] = @ \union {host[j]}]
        /\ UNCHANGED dmq
     \/ /\ em_state' = [em_state EXCEPT ![j] = "FAILED"]
        /\ dmq' = Append(dmq, <<"WRAPPER_FAILED", j>>)
        /\ UNCHANGED runs
  /\ UNCHANGED <<job_state, jobv, depv, hostv, rmv, tm_req, schv>>

\* The execution MAD reports a new state of the wrapper.
EMState(j, s) ==
  /\ runs[j] # {}
  /\ job_state[j] \in ExecStates
  /\ em_state[j] \in {"INIT"} \union Submitted
  /\ em_state[j] # s
  /\ em_state' = [em_state EXCEPT ![j] = s]
  /\ UNCHANGED <<job_state, jobv, depv, hostv, dmq, rmv, em_sub, em_retry, runs, tm_req, schv>>

\* The wrapper ended, was cancelled, or is given up for lost.
EMDone(j, h) ==
  /\ h \in runs[j]
  /\ job_state[j] \in ExecStates
  /\ em_state[j] \notin {"DONE", "FAILED"}
  /\ em_state' = [em_state EXCEPT ![j] = "DONE"]
  /\ runs' = [runs EXCEPT ![j] = @ \ {h}]
  /\ dmq'  = Append(dmq, <<"WRAPPER_DONE", j>>)
  /\ UNCHANGED <<job_state, jobv, depv, hostv, rmv, em_sub, em_retry, tm_req, schv>>

\* The wrapper failed: EM will submit it again, or has no retries left.
EMFailed(j, h) ==
  /\ h \in runs[j]
  /\ job_state[j] \in ExecStates
  /\ em_state[j] \notin {"DONE", "FAILED"}
  /\ em_state' = [em_state EXCEPT ![j] = "FAILED"]
  /\ runs' = [runs EXCEPT ![j] = @ \ {h}]
  /\ \/ em_retry' = [em_retry EXCEPT ![j] = TRUE] /\ UNCHANGED dmq
     \/ dmq' = Append(dmq, <<"WRAPPER_FAILED", j>>) /\ UNCHANGED em_retry
  /\ UNCHANGED <<job_state, jobv, depv, hostv, rmv, em_sub, tm_req, schv>>

\* gw_em_timer: the retry counter of the newest record reaches zero.
EMRetry(j) ==
  /\ em_retry[j]
  /\ em_state[j] = "FAILED"
  /\ job_state[j] \in ExecStates
  /\ em_retry' = [em_retry EXCEPT ![j] = FALSE]
  /\ em_sub'   = [em_sub EXCEPT ![j] = TRUE]
  /\ UNCHANGED <<job_state, jobv, depv, hostv, dmq, rmv, em_state, runs, tm_req, schv>>

\* The TM answers the transfer it was asked for.
TMAnswer(j, a) ==
  /\ \/ tm_req[j] = "PROLOG" /\ a \in {"PROLOG_DONE", "PROLOG_FAILED"}
     \/ tm_req[j] = "EPILOG" /\ a \in {"EPILOG_DONE", "EPILOG_FAILED"}
  /\ tm_req' = [tm_req EXCEPT ![j] = "NONE"]
  /\ dmq' = Append(dmq, <<a, j>>)
  /\ UNCHANGED <<job_state, jobv, depv, hostv, rmv, emv, schv>>

-----------------------------------------------------------------------------
Init ==
  /\ job_state    = [j \in Jobs |-> "NEW"]
  /\ reason       = [j \in Jobs |-> "NONE"]
  /\ reschedule   = [j \in Jobs |-> FALSE]
  /\ host         = [j \in Jobs |-> NoHost]
  /\ prev         = [j \in Jobs |-> NoHost]
  /\ records      = [j \in Jobs |-> 0]
  /\ deps         = [j \in Jobs |-> {}]
  /\ exit_ok      = [j \in Jobs |-> TRUE]
  /\ used_slots   = [h \in Hosts |-> 0]
  /\ running_jobs = [h \in Hosts |-> 0]
  /\ user_running = 0
  /\ dmq          = <<>>
  /\ conn         = [j \in Jobs |-> {}]
  /\ waiting      = [j \in Jobs |-> FALSE]
  /\ em_state     = [j \in Jobs |-> "INIT"]
  /\ em_sub       = [j \in Jobs |-> FALSE]
  /\ em_retry     = [j \in Jobs |-> FALSE]
  /\ runs         = [j \in Jobs |-> {}]
  /\ tm_req       = [j \in Jobs |-> "NONE"]
  /\ entries      = [j \in Jobs |-> 0]
  /\ inflight     = <<>>
  /\ scheduling   = FALSE

\* The handlers of the DM action thread.
DMStep(j) ==
  \/ \E a \in DMActions : MissingJob(a, j)
  \/ Hold(j) \/ Release(j) \/ Kill(j) \/ KillHard(j) \/ Stop(j) \/ Resume(j)
  \/ Reschedule(j) \/ Wait(j)
  \/ \E s \in {"PROLOG", "MIGR_PROLOG"} : Prolog(j, s)
  \/ PrologDone(j) \/ PrologFailed(j)
  \/ \E s \in {"PRE_WRAPPER", "WRAPPER"} : Wrapper(j, s)
  \/ WrapperDone(j) \/ WrapperFailed(j) \/ MigrCancel(j)
  \/ \E s \in EpilogStates : Epilog(j, s)
  \/ EpilogDoneStd(j) \/ EpilogFailedStd(j) \/ EpilogEnded(j)
  \/ EpilogDone(j) \/ EpilogFailed(j)
  \/ Pending(j) \/ Stopped(j) \/ Failed(j) \/ Zombie(j)

\* The DM listener thread.
ListenerStep ==
  \/ ScheduleEnd
  \/ \E j \in Jobs, h \in Hosts \union {NoHost} :
       \/ DispatchPending(j, h) \/ DispatchMigration(j, h)
       \/ UncheckJob(j, h) \/ DispatchRefused(j, h) \/ DispatchUnsaved(j, h)

\* The execution manager.
EMStep(j) ==
  \/ EMSubmit(j) \/ EMRetry(j)
  \/ \E s \in Submitted : EMState(j, s)
  \/ \E h \in Hosts : EMDone(j, h) \/ EMFailed(j, h)

\* The transfer manager.
TMStep(j) == \E a \in Callbacks : TMAnswer(j, a)

Next ==
  \/ \E j \in Jobs :
       \/ Submit(j) \/ DMStep(j) \/ EMStep(j) \/ TMStep(j)
       \/ \E op \in UserOps : Request(op, j)
  \/ Schedule
  \/ ListenerStep
  \/ SchedulerReload

Spec == Init /\ [][Next]_vars
=============================================================================
