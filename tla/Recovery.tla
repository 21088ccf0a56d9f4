------------------------------ MODULE Recovery ------------------------------
(***************************************************************************)
(* gwd dies and is started again: gw_recover_state replays the files that  *)
(* the dispatch manager wrote while it ran,                                *)
(*   - job.state: a line for each state of the job (gw_job_set_state),     *)
(*   - job.history: a line for each history record (gw_job_history_add),   *)
(*   - job.contact: the contact of the wrapper submitted last.             *)
(* The n-th line of job.state that needs a record takes the n-th line of   *)
(* job.history: nothing else ties one file to the other.                   *)
(*                                                                         *)
(* The threads of gwd are started before the recovery and work on the jobs *)
(* already recovered.  Clients come back when the recovery has ended.      *)
(* Timestamps, statistics, a damaged file and the wrappers that nobody     *)
(* tracks any more are left out.                                           *)
(***************************************************************************)
EXTENDS DispatchProperties

CONSTANT MaxCrashes   \* bound: how often gwd dies

ASSUME RecoveryAssumption == MaxCrashes \in Nat

VARIABLES
  log,        \* job.state, as its replay sees it: [needs, prev, last]
  recs,       \* job.history: the hosts of its lines
  contact,    \* job.contact: where the wrapper ran that it names
  output,     \* stdout.wrapper: the exit code in it is 0
  waits,      \* the jobs whose directories gw_recover_state has still to read
  recovering, \* gw_recover_state has not ended
  crashes

filev == <<log, recs, contact, output>>
recv  == <<waits, recovering, crashes>>
allv  == <<vars, filev, recv>>

-----------------------------------------------------------------------------
(* The files.                                                              *)

InPool(s, j) == s[j] \notin {"NEW", "FREED"}

\* Mutant: a migration's record is looked for at its prolog, too.
ReadsRecordAgain(s) == s \in {"PROLOG", "MIGR_CANCEL", "MIGR_PROLOG"}

\* gw_job_recover_state_transition: the states that take the next record.
ReadsRecord(s) == s \in {"PROLOG", "MIGR_CANCEL"}

\* What the lines of job.state come to: the records they need, the last state
\* and the one before (NEW when there is none).
NoLines == [needs |-> 0, prev |-> "NEW", last |-> "NEW"]

AddLine(l, s) ==
  [needs |-> l.needs + One(ReadsRecord(s)), prev |-> l.last, last |-> s]

\* This step is the one in which the DM thread handles <<a, j>>.
Handles(a, j) ==
  /\ dmq # <<>>
  /\ Head(dmq) = <<a, j>>
  /\ dmq' # dmq /\ Len(dmq') <= Len(dmq)

\* The handlers that set the job's state whatever it was.  gw_dm_prolog and the
\* epilogs write no line for a job that is in their state already.
AlwaysSet == {"PENDING", "STOPPED", "FAILED", "MIGR_PROLOG", "PRE_WRAPPER", "WRAPPER"}

SetAgain(j) == job_state[j] \in AlwaysSet /\ Handles(job_state[j], j)

\* gw_job_set_state(job, state, GW_FALSE)
SaveStates ==
  log' = [j \in Jobs |->
            IF InPool(job_state', j) /\ (job_state'[j] # job_state[j] \/ SetAgain(j))
              THEN AddLine(log[j], job_state'[j])
              ELSE log[j]]

\* gw_job_history_add, not for a recovery
SaveRecords ==
  recs' = [j \in Jobs |-> IF records'[j] > records[j] THEN Append(recs[j], host'[j]) ELSE recs[j]]

\* gw_em_listener, SUBMIT SUCCESS: the MAD took the wrapper.
SaveContact ==
  contact' = [j \in Jobs |->
                IF em_state[j] = "INIT" /\ em_state'[j] \in Submitted
                  THEN CHOOSE h \in Hosts : h \in runs[j]
                  ELSE contact[j]]

\* gw_dm_epilog_std_done: the exit code that the wrapper left in its output.
SaveOutput ==
  output' = [j \in Jobs |->
               IF Handles("EPILOG_DONE", j) /\ job_state[j] = "EPILOG_STD" /\ reason' = reason
                 THEN exit_ok'[j]
                 ELSE output[j]]

Save == SaveStates /\ SaveRecords /\ SaveContact /\ SaveOutput

-----------------------------------------------------------------------------
(* The restart.                                                            *)

\* gwd dies: what it had in memory is gone, with its connections and its MADs.
Crash ==
  /\ crashes < MaxCrashes
  /\ ~recovering
  /\ crashes' = crashes + 1
  /\ recovering' = TRUE
  /\ waits' = {j \in Jobs : InPool(job_state, j)}
  /\ job_state' = [j \in Jobs |-> IF job_state[j] = "NEW" THEN "NEW" ELSE "FREED"]
  /\ reason'     = [j \in Jobs |-> "NONE"]
  /\ reschedule' = [j \in Jobs |-> FALSE]
  /\ host'       = [j \in Jobs |-> NoHost]
  /\ prev'       = [j \in Jobs |-> NoHost]
  /\ records'    = [j \in Jobs |-> 0]
  /\ deps'       = [j \in Jobs |-> {}]
  /\ used_slots'   = [h \in Hosts |-> 0]
  /\ running_jobs' = [h \in Hosts |-> 0]
  /\ user_running' = 0
  /\ dmq'        = <<>>
  /\ conn'       = [j \in Jobs |-> {}]
  /\ waiting'    = [j \in Jobs |-> FALSE]
  /\ em_state'   = [j \in Jobs |-> "INIT"]
  /\ em_sub'     = [j \in Jobs |-> FALSE]
  /\ em_retry'   = [j \in Jobs |-> FALSE]
  /\ runs'       = [j \in Jobs |-> {}]
  /\ tm_req'     = [j \in Jobs |-> "NONE"]
  /\ entries'    = [j \in Jobs |-> 0]
  /\ inflight'   = <<>>
  /\ scheduling' = FALSE
  /\ UNCHANGED <<exit_ok, filev>>

\* gw_job_recover_history_record fails: "Will not recover job".
RecordMissing(j) == log[j].needs > Len(recs[j])

\* Mutant: a prolog is not started again.
ResumedByLater(s) == IF s \in EpilogStates THEN {s} ELSE {}

\* gw_job_recover_last_state_transition: the action that takes the job on.  "Continues
\* to": a job that was being cancelled goes on after its wrapper.
ResumedBy(s) ==
  CASE s \in BusyStates \ CancelStates -> {s}
    [] s = "STOP_CANCEL" -> {"STOP_EPILOG"}
    [] s = "KILL_CANCEL" -> {"KILL_EPILOG"}
    [] s = "MIGR_CANCEL" -> {"MIGR_PROLOG"}
    [] OTHER             -> {}

\* gw_host_inc_slots_nb and gw_host_inc_rjobs_nb
HoldsSlot(s) == s \in {"PROLOG", "PRE_WRAPPER", "WRAPPER"} \union MigrStates

\* Mutant: the host that the job left is not charged again.
ChargesNever(s) == FALSE

ChargesNext(s) == s \in MigrStates

\* gw_job_recover.  The state of job j is first the one before the last, and then
\* what gw_job_recover_last_state_transition makes of it.
Recover(j) ==
  LET n == log[j].needs
      s == log[j].last
      h == IF n > 0 THEN recs[j][n] ELSE NoHost
      p == IF n > 1 THEN recs[j][n - 1] ELSE NoHost
      tracked == s = "WRAPPER" /\ contact[j] # NoHost   \* RECOVER is sent to the EM MAD
      lost    == s = "WRAPPER" /\ contact[j] = NoHost   \* no contact: back to PENDING
      msgs    == IF tracked THEN {} ELSE IF lost THEN {"PENDING"} ELSE ResumedBy(s)
  IN  /\ j \in waits
      /\ ~RecordMissing(j)
      /\ waits' = waits \ {j}
      /\ SetState(j, IF lost THEN "PENDING"
                     ELSE IF tracked \/ s \in IdleStates \union CancelStates THEN s
                     ELSE log[j].prev)
      /\ host'    = [host EXCEPT ![j] = h]
      /\ prev'    = [prev EXCEPT ![j] = p]
      /\ records' = [records EXCEPT ![j] = n]
      /\ deps'    = [deps EXCEPT ![j] = Deps[j]]
      /\ IF s = "ZOMBIE"     \* gw_job_recover_exit_code: the wrapper's output is there
           THEN exit_ok' = [exit_ok EXCEPT ![j] = output[j]]
           ELSE exit_ok' = [exit_ok EXCEPT ![j] = TRUE]
      /\ user_running' = user_running + One(s \in BusyStates)
      /\ used_slots' = [x \in Hosts |-> used_slots[x] + One(x = h /\ HoldsSlot(s))]
      /\ running_jobs' = [x \in Hosts |-> running_jobs[x] + One(x = h /\ s \in BusyStates)
                                            + One(x = p /\ ChargesNext(s))]
      /\ dmq' = IF msgs = {} THEN dmq ELSE Append(dmq, <<CHOOSE a \in msgs : TRUE, j>>)
      \* The EM will report the end of the wrapper that the contact names, also when
      \* it ended while gwd was down.
      /\ runs' = [runs EXCEPT ![j] = IF tracked THEN {contact[j]} ELSE {}]
      /\ entries' = [entries EXCEPT ![j] = @ + One(s = "PENDING")]
      /\ UNCHANGED <<reason, reschedule, rmv, em_state, em_sub, em_retry, tm_req, inflight,
                     scheduling, filev, recovering, crashes>>

\* The job is freed again, its files stay.
NotRecovered(j) ==
  /\ j \in waits
  /\ RecordMissing(j)
  /\ waits' = waits \ {j}
  /\ UNCHANGED <<vars, filev, recovering, crashes>>

\* Mutant: a dependency that is still in the pool is taken for one that ended.
DepEndedAny(k, d) == InPool(job_state, d)

\* The dependency d of the held job k has ended as k asked for.
DepEnded(k, d) ==
  /\ job_state[d] = "ZOMBIE"
  /\ TypeDep[k] = "ANY" \/ (TypeDep[k] = "OK" <=> exit_ok[d])

\* gw_job_pool_dep_consistency, when all jobs are recovered: the held jobs whose
\* dependencies ended, or left the pool, are released, when one is still there.
DepConsistency ==
  LET met(k) == IF job_state[k] = "HOLD"
                  THEN {d \in deps[k] : DepEnded(k, d) \/ ~InPool(job_state, d)}
                  ELSE {}
      free(k) == /\ job_state[k] = "HOLD"
                 /\ met(k) = deps[k]
                 /\ \E d \in deps[k] : InPool(job_state, d)
  IN  /\ recovering
      /\ waits = {}
      /\ recovering' = FALSE
      /\ deps' = [k \in Jobs |-> deps[k] \ met(k)]
      /\ job_state' = [k \in Jobs |-> IF free(k) THEN "PENDING" ELSE job_state[k]]
      /\ entries' = [k \in Jobs |-> entries[k] + One(free(k))]
      /\ log' = [k \in Jobs |-> IF free(k) THEN AddLine(log[k], "PENDING") ELSE log[k]]
      /\ UNCHANGED <<jobv, exit_ok, hostv, dmq, rmv, emv, tm_req, inflight, scheduling,
                     recs, contact, output, waits, crashes>>

-----------------------------------------------------------------------------
RInit ==
  /\ Init
  /\ log = [j \in Jobs |-> NoLines]
  /\ recs = [j \in Jobs |-> <<>>]
  /\ contact = [j \in Jobs |-> NoHost]
  /\ output = [j \in Jobs |-> TRUE]
  /\ waits = {}
  /\ recovering = FALSE
  /\ crashes = 0

\* The clients of gwd.
ClientStep ==
  /\ ~recovering
  /\ \E j \in Jobs : Submit(j) \/ \E op \in UserOps : Request(op, j)

\* The threads of gwd.
DaemonStep ==
  \/ \E j \in Jobs : DMStep(j) \/ EMStep(j) \/ TMStep(j)
  \/ Schedule
  \/ ListenerStep

RNext ==
  \/ (ClientStep \/ DaemonStep) /\ Save /\ UNCHANGED recv
  \/ Crash
  \/ \E j \in Jobs : Recover(j) \/ NotRecovered(j)
  \/ DepConsistency

RSpec == RInit /\ [][RNext]_allv

-----------------------------------------------------------------------------
(* What a restart must keep.                                               *)

\* The first restart recovers every job: each line of job.state that needs a
\* record of the history finds it (gw_job_recover.c:208, "Will not recover job").
Recoverable == crashes <= 1 => \A j \in waits : ~RecordMissing(j)

\* A job on a host is never left there: a message, a transfer or a wrapper of it is
\* on its way, whatever gwd was doing with it when it died.  (A job that is being
\* cancelled is taken on by the EM, Execution!CancelEnds.)
OnItsWay(j) ==
  \/ \E a \in StateActions \union Callbacks : Queued(a, j)
  \/ em_sub[j] \/ em_retry[j] \/ runs[j] # {} \/ tm_req[j] # "NONE"

\* A PENDING job is known to the scheduler, or its way from PENDING or back to it
\* has begun.
Offered(j) ==
  \/ entries[j] > 0
  \/ \E i \in 1..Len(inflight) : inflight[i][1] = j /\ inflight[i][2] # NoHost
  \/ OnItsWay(j)

\* No job is forgotten, after a restart as before.
NotStranded ==
  \A j \in Jobs :
    /\ job_state[j] \in BusyStates \ CancelStates => OnItsWay(j)
    /\ job_state[j] = "PENDING" => Offered(j)

\* The hosts and the user are charged for a recovered job as long as it is there:
\* what the job gives back when it leaves was counted when it was recovered.
StillCharged == HostCharged /\ UserCharged
=============================================================================
