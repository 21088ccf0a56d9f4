-------------------------- MODULE ExecutionManager --------------------------
(***************************************************************************)
(* The execution manager (EM) of gwd: it submits the wrapper of a job      *)
(* through the execution MAD, follows it by polls and callbacks, retries   *)
(* and cancels it, and tells the dispatch manager (DM) when it ended.      *)
(*                                                                         *)
(* Three threads of gwd take part.  The EM action thread handles its FIFO  *)
(* queue emq, and runs gw_em_timer when the queue is empty; the listener   *)
(* reads the lines of the MAD (from_mad) and posts to emq; the DM thread   *)
(* handles dmq.  The DM is reduced to the handlers that speak to the EM:   *)
(* a transfer before or after a wrapper is a single step.                  *)
(*                                                                         *)
(* Times are left out: a poll may be due whenever the timer runs.  So are  *)
(* statistics, the text of the RSL, the answers to CANCEL, which the       *)
(* listener only logs, and migrations (see DispatchManager): for the EM a  *)
(* migration is a cancel, then a submission with a new record.             *)
(***************************************************************************)
EXTENDS Integers, Sequences, FiniteSets, SequencesExt

CONSTANTS
  Jobs,            \* jobs, all run through one execution MAD
  Hosts,           \* hosts the scheduler may send them to
  NoHost,          \* no history record
  number_of_retries, \* the template's NUMBER_OF_RETRIES
  PreWrapper,      \* jobs whose template has a PRE_WRAPPER
  Requests,        \* requests that cancel a wrapper: "STOP", "KILL"
  Garbage,         \* what malloc may leave in the cancel_tries of a record
  Faults,          \* what may go wrong: see ExecutionMad; "RSL" here
  MaxRecords,      \* bound: a job is dispatched while it has fewer records
  MaxPolls,        \* bound: polls of a job that are not answered yet
  MaxQueue         \* bound: the EM and the listener wait while the queue they
                   \* post to has more entries

ASSUME EMAssumption ==
  /\ NoHost \notin Hosts
  /\ number_of_retries \in Nat
  /\ PreWrapper \subseteq Jobs
  /\ Requests \subseteq {"STOP", "KILL"}
  /\ Garbage \subseteq Nat /\ Garbage # {}
  /\ MaxRecords \in Nat
  /\ MaxPolls \in Nat
  /\ MaxQueue \in Nat

VARIABLES
  job_state,     \* job->job_state
  em_state,      \* job->em_state
  host,          \* history->host
  records,       \* number of history records
  tries,         \* history->tries
  counter,       \* history->counter: timer periods until the next try, or -1
  failed_polls,  \* history->failed_polls; 4 stands for more than three
  cancel_tries,  \* history->cancel_tries
  contact,       \* the remote job named in job.contact; 0: no file
  polling,       \* polls of the job not answered yet
  active_jobs,   \* queue_active_jobs of the host
  used_slots,    \* used_slots of the host
  emq,           \* queue of the EM: a sequence of <<action, job>>
  dmq,           \* queue of the DM
  to_mad,        \* lines written to the MAD: <<operation, job, remote job>>
  from_mad,      \* lines of the MAD: <<operation, job, result, info>>
  mad_up         \* the MAD process runs

recv == <<host, records>>
tryv == <<tries, counter, failed_polls, cancel_tries>>
hstv == <<active_jobs, used_slots>>
pipv == <<to_mad, from_mad, mad_up>>
emvars == <<job_state, em_state, recv, tryv, contact, polling, hstv, emq, dmq,
            pipv>>

CancelStates == {"STOP_CANCEL", "KILL_CANCEL"}
ExecStates   == {"PRE_WRAPPER", "WRAPPER"} \union CancelStates
JobStates    == {"PENDING", "EPILOG"} \union ExecStates
Submitted    == {"PENDING", "ACTIVE", "SUSPENDED"}     \* issubmitted
EMStates     == {"INIT", "FAILED", "DONE"} \union Submitted

EMInit ==
  /\ job_state = [j \in Jobs |-> "PENDING"]
  /\ em_state = [j \in Jobs |-> "INIT"]
  /\ host = [j \in Jobs |-> NoHost]
  /\ records = [j \in Jobs |-> 0]
  /\ tries = [j \in Jobs |-> 0] /\ counter = [j \in Jobs |-> -1]
  /\ failed_polls = [j \in Jobs |-> 0] /\ cancel_tries = [j \in Jobs |-> 0]
  /\ contact = [j \in Jobs |-> 0] /\ polling = [j \in Jobs |-> 0]
  /\ active_jobs = [h \in Hosts |-> 0] /\ used_slots = [h \in Hosts |-> 0]
  /\ emq = <<>> /\ dmq = <<>>
  /\ to_mad = <<>> /\ from_mad = <<>> /\ mad_up = TRUE

-----------------------------------------------------------------------------
(* The dispatch manager.                                                   *)

\* gw_job_history_add: the counters of a new record.  cancel_tries is not
\* set: it holds what malloc returned.
NewRecord(j, h) ==
  /\ host' = [host EXCEPT ![j] = h]
  /\ records' = [records EXCEPT ![j] = @ + 1]
  /\ tries' = [tries EXCEPT ![j] = 0]
  /\ counter' = [counter EXCEPT ![j] = -1]
  /\ failed_polls' = [failed_polls EXCEPT ![j] = 0]
  /\ \E g \in Garbage : cancel_tries' = [cancel_tries EXCEPT ![j] = g]
  /\ used_slots' = [used_slots EXCEPT ![h] = @ + 1]

\* gw_dm_pre_wrapper, gw_dm_wrapper: the wrapper is handed to the EM.
ToWrapper(j, s) ==
  /\ job_state' = [job_state EXCEPT ![j] = s]
  /\ em_state' = [em_state EXCEPT ![j] = "INIT"]
  /\ emq' = Append(emq, <<"SUBMIT", j>>)

\* The job is dispatched and its prolog is done.
DMDispatch(j, h) ==
  /\ job_state[j] = "PENDING"
  /\ records[j] < MaxRecords
  /\ NewRecord(j, h)
  /\ ToWrapper(j, IF j \in PreWrapper THEN "PRE_WRAPPER" ELSE "WRAPPER")
  /\ UNCHANGED <<contact, polling, active_jobs, dmq, pipv>>

\* gw_dm_stop, gw_dm_kill: only a job in WRAPPER is cancelled.
DMCancel(j, op) ==
  /\ op \in Requests
  /\ job_state[j] = "WRAPPER"
  /\ job_state' = [job_state EXCEPT ![j] =
                     IF op = "STOP" THEN "STOP_CANCEL" ELSE "KILL_CANCEL"]
  /\ emq' = Append(emq, <<"CANCEL", j>>)
  /\ UNCHANGED <<em_state, recv, tryv, contact, polling, hstv, dmq, pipv>>

\* gw_dm_wrapper_done_cb: the slot of the host is freed, and the handler of
\* the next state is queued.
DMWrapperDone(j) ==
  LET s == job_state[j]
  IN  /\ em_state' = [em_state EXCEPT ![j] = "INIT"]
      /\ dmq' = IF s \notin ExecStates THEN Tail(dmq)
                ELSE Append(Tail(dmq), <<IF s = "PRE_WRAPPER" THEN "WRAPPER"
                                         ELSE "EPILOG", j>>)
      /\ used_slots' = IF s \in ExecStates \ {"PRE_WRAPPER"}
                         THEN [used_slots EXCEPT ![host[j]] = @ - 1]
                         ELSE used_slots
      /\ UNCHANGED <<job_state, recv, tryv, contact, polling, active_jobs, emq,
                     pipv>>

\* gw_dm_wrapper_failed_cb: frees a slot of the newest host, in any state.
DMWrapperFailed(j) ==
  /\ em_state' = [em_state EXCEPT ![j] = "INIT"]
  /\ dmq' = Append(Tail(dmq), <<"EPILOG", j>>)
  /\ used_slots' = [used_slots EXCEPT ![host[j]] = @ - 1]
  /\ UNCHANGED <<job_state, recv, tryv, contact, polling, active_jobs, emq, pipv>>

\* The DM thread handles the head of its queue.
DMStep ==
  /\ dmq # <<>>
  /\ LET a == Head(dmq)[1]
         j == Head(dmq)[2]
     IN  \/ a = "WRAPPER_DONE" /\ DMWrapperDone(j)
         \/ a = "WRAPPER_FAILED" /\ DMWrapperFailed(j)
         \/ /\ a = "WRAPPER"
            /\ ToWrapper(j, "WRAPPER")
            /\ dmq' = Tail(dmq)
            /\ UNCHANGED <<recv, tryv, contact, polling, hstv, pipv>>
         \/ /\ a = "EPILOG"
            /\ job_state' = [job_state EXCEPT ![j] = "EPILOG"]
            /\ dmq' = Tail(dmq)
            /\ UNCHANGED <<em_state, recv, tryv, contact, polling, hstv, emq, pipv>>

\* After the epilog a stopped or failed job may be scheduled again.
DMReschedule(j) ==
  /\ job_state[j] = "EPILOG" /\ records[j] < MaxRecords
  /\ job_state' = [job_state EXCEPT ![j] = "PENDING"]
  /\ UNCHANGED <<em_state, recv, tryv, contact, polling, hstv, emq, dmq, pipv>>

-----------------------------------------------------------------------------
(* The EM action thread.                                                   *)

\* A line to the MAD; it is lost when the process has died.
ToMad(op, j, r) ==
  to_mad' = IF mad_up THEN Append(to_mad, <<op, j, r>>) ELSE to_mad

\* GW_DM_WRAPPER_DONE or GW_DM_WRAPPER_FAILED.
TellDM(end, j) == dmq' = Append(dmq, <<end, j>>)

\* gw_em_submit.  Without an RSL the job fails, and no try is left.
EMSubmit(j) ==
  /\ counter' = [counter EXCEPT ![j] = -1]
  /\ emq' = Tail(emq)
  /\ \/ /\ "RSL" \in Faults
        /\ em_state' = [em_state EXCEPT ![j] = "FAILED"]
        /\ TellDM("WRAPPER_FAILED", j)
        /\ UNCHANGED <<tries, to_mad>>
     \/ /\ em_state' = [em_state EXCEPT ![j] = "INIT"]
        /\ tries' = [tries EXCEPT ![j] = @ + 1]
        /\ ToMad("SUBMIT", j, 0)
        /\ UNCHANGED dmq
  /\ UNCHANGED <<job_state, recv, failed_polls, cancel_tries, contact, polling, hstv,
                 from_mad, mad_up>>

\* gw_em_cancel.  A wrapper not yet submitted is not cancelled: gw_em_pending
\* will try again.  After three tries the job is taken for done.
EMCancel(j) ==
  /\ IF cancel_tries[j] >= 3
       THEN /\ emq' = Append(Tail(emq), <<"DONE", j>>)
            /\ UNCHANGED <<cancel_tries, to_mad>>
       ELSE /\ cancel_tries' = [cancel_tries EXCEPT ![j] = @ + 1]
            /\ emq' = Tail(emq)
            /\ IF em_state[j] \in Submitted
                 THEN ToMad("CANCEL", j, 0)
                 ELSE UNCHANGED to_mad
  /\ UNCHANGED <<job_state, em_state, recv, tries, counter, failed_polls,
                 contact, polling, hstv, dmq, from_mad, mad_up>>

\* Mutant: the report of a state does not cancel the wrapper again.
RetryCancelNever(j) == emq' = Tail(emq)

\* A wrapper that still runs is cancelled again.
RetryCancel(j) ==
  emq' = IF job_state[j] \in CancelStates
           THEN Append(Tail(emq), <<"CANCEL", j>>) ELSE Tail(emq)

\* gw_host_inc_ajobs_nb and gw_host_dec_ajobs_nb, on the newest record's host.
CountActive(j, d) ==
  active_jobs' = [active_jobs EXCEPT ![host[j]] = @ + d]

\* Mutant: a wrapper that leaves ACTIVE stays counted.
LeaveActiveNever(j) == UNCHANGED active_jobs

LeaveActive(j) ==
  IF em_state[j] = "ACTIVE" THEN CountActive(j, -1) ELSE UNCHANGED active_jobs

\* gw_em_pending, gw_em_suspended and gw_em_active.
EMPhase(j, s) ==
  /\ RetryCancel(j)
  /\ em_state' = [em_state EXCEPT ![j] = s]
  /\ IF s # "ACTIVE" THEN LeaveActive(j)
     ELSE IF em_state[j] # "ACTIVE" THEN CountActive(j, 1)
     ELSE UNCHANGED active_jobs
  /\ UNCHANGED <<job_state, recv, tryv, contact, polling, used_slots, dmq, pipv>>

\* Mutant: gw_em_done does not drop the second report of an end.
EMDoneTwice(j) ==
  /\ emq' = Tail(emq)
  /\ em_state' = [em_state EXCEPT ![j] = "DONE"]
  /\ LeaveActive(j)
  /\ TellDM("WRAPPER_DONE", j)
  /\ UNCHANGED <<job_state, recv, tryv, contact, polling, used_slots, pipv>>

\* gw_em_done.
EMDone(j) ==
  /\ emq' = Tail(emq)
  /\ IF em_state[j] = "DONE" THEN UNCHANGED <<em_state, active_jobs, dmq>>
     ELSE /\ em_state' = [em_state EXCEPT ![j] = "DONE"]
          /\ LeaveActive(j)
          /\ TellDM("WRAPPER_DONE", j)
  /\ UNCHANGED <<job_state, recv, tryv, contact, polling, used_slots, pipv>>

\* Mutant: gw_em_failed forgets NUMBER_OF_RETRIES.
EMFailedAgain(j) ==
  /\ emq' = Tail(emq)
  /\ em_state' = [em_state EXCEPT ![j] = "FAILED"]
  /\ LeaveActive(j)
  /\ counter' = [counter EXCEPT ![j] = tries[j]]
  /\ UNCHANGED <<job_state, recv, tries, failed_polls, cancel_tries, contact, polling,
                 used_slots, dmq, pipv>>

\* gw_em_failed: no retries left, or another try after tries timer periods.
EMFailed(j) ==
  /\ emq' = Tail(emq)
  /\ em_state' = [em_state EXCEPT ![j] = "FAILED"]
  /\ LeaveActive(j)
  /\ IF tries[j] >= number_of_retries
       THEN counter' = [counter EXCEPT ![j] = -1] /\ TellDM("WRAPPER_FAILED", j)
       ELSE counter' = [counter EXCEPT ![j] = tries[j]] /\ UNCHANGED dmq
  /\ UNCHANGED <<job_state, recv, tries, failed_polls, cancel_tries, contact, polling,
                 used_slots, pipv>>

\* gw_am_loop of the EM: the head of the queue.
EMStep ==
  /\ emq # <<>> /\ Len(dmq) <= MaxQueue
  /\ LET a == Head(emq)[1]
         j == Head(emq)[2]
     IN  \/ a = "SUBMIT" /\ EMSubmit(j)
         \/ a = "CANCEL" /\ EMCancel(j)
         \/ a \in Submitted /\ EMPhase(j, a)
         \/ a = "DONE" /\ EMDone(j)
         \/ a = "FAILED" /\ EMFailed(j)

\* gw_em_timer.  It visits the jobs one after the other: each visit is a step.
\* A poll of a submitted job is due ...
EMPoll(j) ==
  /\ emq = <<>>
  /\ job_state[j] \in ExecStates /\ em_state[j] \in Submitted
  /\ polling[j] < MaxPolls
  /\ polling' = [polling EXCEPT ![j] = @ + 1]
  /\ ToMad("POLL", j, 0)
  /\ UNCHANGED <<job_state, em_state, recv, tryv, contact, hstv, emq, dmq,
                 from_mad, mad_up>>

\* ... or a failed job waits for its next try.
EMRetry(j) ==
  /\ emq = <<>>
  /\ job_state[j] \in ExecStates /\ em_state[j] = "FAILED" /\ counter[j] # -1
  /\ IF counter[j] = 1
       THEN /\ counter' = [counter EXCEPT ![j] = -1]
            /\ emq' = Append(emq, <<"SUBMIT", j>>)
       ELSE counter' = [counter EXCEPT ![j] = @ - 1] /\ UNCHANGED emq
  /\ UNCHANGED <<job_state, em_state, recv, tries, failed_polls, cancel_tries,
                 contact, polling, hstv, dmq, pipv>>

-----------------------------------------------------------------------------
(* The listener thread, gw_em_listener.                                    *)

\* Mutant: a state the MAD has no name for is taken for a failure.
PostedUnknown(op, j, ok, info) ==
  IF ~ok THEN <<"FAILED">>
  ELSE IF op = "SUBMIT" THEN <<"PENDING">>
  ELSE IF info \in Submitted \union {"DONE"} THEN <<info>> ELSE <<"FAILED">>

\* What a line makes the listener post; <<>> when it posts nothing.
Posted(op, j, ok, info) ==
  CASE ~ok /\ op = "SUBMIT"                  -> <<"FAILED">>
    [] ok /\ op = "SUBMIT"                   -> <<"PENDING">>
    [] ~ok /\ op = "RECOVER"                 -> <<"DONE">>
    [] ~ok /\ op = "POLL"                    ->
         IF failed_polls[j] = 2 THEN <<"DONE">> ELSE <<>>
    [] ~ok /\ op = "CALLBACK"                ->
         IF job_state[j] \in CancelStates THEN <<"DONE">> ELSE <<"FAILED">>
    [] ok /\ op # "SUBMIT" /\ info \in Submitted \union {"DONE", "FAILED"} ->
         <<IF op = "CALLBACK" /\ info = "FAILED" THEN "DONE" ELSE info>>
    [] OTHER                                 -> <<>>

\* A line about a job that is not being executed is dropped.
EMListen ==
  /\ from_mad # <<>> /\ Len(emq) <= MaxQueue
  /\ from_mad' = Tail(from_mad)
  /\ polling' = IF Head(from_mad)[1] = "POLL"
                  THEN [polling EXCEPT ![Head(from_mad)[2]] = @ - 1] ELSE polling
  /\ LET op == Head(from_mad)[1]
         j == Head(from_mad)[2]
         ok == Head(from_mad)[3]
         info == Head(from_mad)[4]
         post == Posted(op, j, ok, info)
     IN  IF job_state[j] \notin ExecStates
           THEN UNCHANGED <<tries, failed_polls, contact, emq>>
           ELSE /\ emq' = emq \o [i \in DOMAIN post |-> <<post[i], j>>]
                /\ contact' = IF op = "SUBMIT" /\ ok
                                THEN [contact EXCEPT ![j] = info] ELSE contact
                /\ failed_polls' =
                     IF op = "POLL" /\ ~ok /\ failed_polls[j] < 4
                       THEN [failed_polls EXCEPT ![j] = @ + 1] ELSE failed_polls
                /\ tries' = IF op = "RECOVER" /\ ok /\ info = "FAILED"
                              THEN [tries EXCEPT ![j] = number_of_retries]
                              ELSE tries
  /\ UNCHANGED <<job_state, em_state, recv, counter, cancel_tries, hstv, dmq,
                 to_mad, mad_up>>

\* Mutant: the jobs whose wrapper is not known to be submitted are not recovered.
EMReloadSubmitted ==
  /\ ~mad_up /\ from_mad = <<>>
  /\ mad_up' = TRUE
  /\ polling' = [j \in Jobs |-> 0]
  /\ LET found == SetToSeq({j \in Jobs : em_state[j] \in Submitted /\ contact[j] # 0})
     IN to_mad' = [i \in DOMAIN found |-> <<"RECOVER", found[i], contact[found[i]]>>]
  /\ UNCHANGED <<job_state, em_state, recv, tryv, contact, hstv, emq, dmq, from_mad>>

\* The pipe is at its end: gw_em_mad_reload starts the MAD again, and
\* gw_job_pool_em_recover asks it for the jobs in WRAPPER.
EMReload ==
  /\ ~mad_up /\ from_mad = <<>>
  /\ mad_up' = TRUE
  /\ polling' = [j \in Jobs |-> 0]
  /\ LET wrappers == SetToSeq({j \in Jobs : job_state[j] = "WRAPPER"})
         known(j) == contact[j] # 0
         lost(j) == contact[j] = 0
         found == SelectSeq(wrappers, known)
         gone == SelectSeq(wrappers, lost)
     IN  /\ to_mad' = [i \in DOMAIN found |->
                         <<"RECOVER", found[i], contact[found[i]]>>]
         /\ emq' = emq \o [i \in DOMAIN gone |-> <<"FAILED", gone[i]>>]
  /\ UNCHANGED <<job_state, em_state, recv, tryv, contact, hstv, dmq, from_mad>>

EMNext ==
  \/ DMStep \/ EMStep \/ EMListen \/ EMReload
  \/ \E j \in Jobs :
       \/ \E h \in Hosts : DMDispatch(j, h)
       \/ \E op \in {"STOP", "KILL"} : DMCancel(j, op)
       \/ DMReschedule(j) \/ EMPoll(j) \/ EMRetry(j)

=============================================================================
