# A TLA+ development of the GridWay core of DRM4G

DRM4G runs jobs on remote batch systems.  Its core is GridWay 5.8, the daemon
`gwd` (`src/gridway-5.8`), written in C; DRM4G (`src/drm4g`, Python) gives it its
own middleware access drivers (MADs) for execution, transfer and information, and
its command line.  This directory models the daemon, its scheduler, DRM4G's MADs
and the clients, checks them with TLC and proves part of it with TLAPS.  All paths
below without `src/drm4g` are under `src/gridway-5.8/src`.

## 1. The system

`gwd` is one process of several managers.  Each has an *action thread* that takes
actions from its own FIFO queue (`common/gw_action.c`: `gw_am_trigger` appends,
`gw_am_loop` handles them one at a time, and starts the timer's action when it
finds the queue empty after a timeout) and most have a *listener thread* that
reads the answers of their MADs from pipes.  All of them change the same jobs,
each under the mutex of the job, and the counters of hosts and users.  MADs and
the scheduler are processes that `gwd` starts and restarts.

| Part | State | Operations | Talks to |
|------|-------|------------|----------|
| Dispatch manager (DM), `dm/` | `gw_dm.scheduling`; a job's state, reschedule flag, history | one handler per client request, per job state to enter and per answer of EM/TM; the listener's dispatches; the timer's `gw_dm_schedule` | all the others |
| Scheduler, `scheduler/` | list of entries, hosts, users, what it dispatched in this round | add and delete entries, a round (`flood_scheduler`) | DM by a pipe, RM for matches |
| Execution manager (EM), `em/` | a job's `em_state`; `tries`, `counter`, `cancel_tries`, `failed_polls` of a record | submit, cancel, timer (polls, retries), MAD's answers | DM (done, failed), execution MAD |
| Transfer manager (TM), `tm/` | a job's `tm_state` and its three arrays of transfers | prolog, epilog, checkpoint, timer (retries), MAD's answers | DM (done, failed), transfer MAD |
| Request manager (RM), `rm/` | list of connections that wait for an answer | accept, authorise, register, trigger, answer | clients by sockets, DM |
| Job pool and history, `job/` | the jobs, their history records, `gw_job_deps`, their files | allocate, free, dependency check, recovery | all |
| Host pool, `host/` | `used_slots`, `running_jobs`, state of a host | add and subtract, discovery, monitoring | DM, EM, IM |
| User manager, `um/`, `user/` | users, their MADs, `running_jobs` | register, add and subtract, free the idle | DM, RM |
| Information manager (IM), `im/` | monitoring state of the hosts | discovery, monitoring, timer | host pool, MAD |
| DRM4G MADs, `src/drm4g/core` | jobs or transfers in progress, their threads | SUBMIT, POLL, CALLBACK, CANCEL; START, CP, END; DISCOVER, MONITOR | managers and communicators |
| Client library and DRMAA, `client/`, `drmaa/` | connections; a session's list of jobs | blocking calls: submit, signal, wait, status | RM |

Configuration, templates, rank and requirement expressions, accounting, the text
of commands, the GridWay MADs that DRM4G replaces, and DRM4G's batch system
managers complete the tree.  `PROJECT.json` lists every part with what is modelled
of it.

**What is hard.**  A job's life goes through some thirty handlers in ten files.  A
handler trusts that the job's state, its two newest history records and the
counters it must give back agree, while other threads change them in between:

- a dispatch (listener thread) charges a host and leaves the job PENDING until the
  DM thread handles `GW_DM_STATE_PROLOG`, which looks at no state.  Hold, kill and
  a second dispatch fit in between;
- the answer of the scheduler to a *rescheduling* request may be read when the job
  has gone elsewhere, even through FAILED or a restart back to PENDING;
- in a migration the newest record is the host to come and the second one the
  host that runs, and each handler must choose the right one;
- whoever takes a job from its host gives back slots and running jobs that someone
  else took, in another file and state; nothing checks the counters;
- a wrapper's end is reported by a poll, by a callback or by neither, in any order
  with the answers to its submission and its cancel, and a retry resets what tells
  one report from the other;
- checkpoint, cancel and epilog share one list of transfers and one protocol, in
  which the MAD answers from a pool of threads;
- a MAD or the scheduler may die in any of these moments, with what it knew and
  had not said, and is told again of part of it;
- clients wait for answers that any of a dozen ways out must remember to give, and
  a slot of a client that is gone is given to the next;
- `gwd` may die in any state: only the order of their lines ties `job.state` to
  `job.history`, and the jobs already recovered run while others are read.

The list of hazards in `PROJECT.json` names each at its line.

**What makes each part correct.**  DM: no handler without the record it reads
(`HistoryExists`); no PENDING job forgotten (`NotLost`); one wrapper per job
(`OneRun`); host and user charged for what runs, and for nothing once all is quiet
(`SlotsCharged`, `AllReturned`, `UserReturned`); dependencies respected
(`DepsRespected`); jobs end and clients are told (`JobsEnd`, `WaitersTold`).  EM:
the service the DM relies on (`ServiceSpec`), with every counter given back once.
TM: each stage reported once and truthfully, no file taken away too early.  RM:
each client gets the answers to its own requests, and nobody waits in vain.
Scheduler and IM: no host gets more than its queue takes, no job is left out,
rounds and queries do not overlap.  Recovery: no job lost, stranded or wrongly
charged.

## 2. Modules

| Module | What it is |
|--------|------------|
| `DispatchManager` | the DM with what the others promise it: constants, state, actions, `Spec` |
| `DispatchProperties` | its types, invariants, action and liveness properties, fairness (`FairSpec`) |
| `DispatchInvariants` | its inductive invariants and the hypotheses of its theorems |
| `DispatchProofs`, `ActivityProofs`, `ChargeProofs` | theorems about it |
| `ExecutionManager`, `ExecutionMad`, `Execution` | the EM; `em_mad.py` and the remote jobs; both joined by their pipes, with properties |
| `Wrappers` | what the DM needs from them: the abstract specification `Execution` implements |
| `ExecutionProofs` | theorems about the execution of wrappers: the refinement, types and counters |
| `TransferManager`, `TransferMad`, `Transfer` | the TM; `tm_mad.py` and the directories; both joined, with the wrapper in between |
| `TransferProofs` | theorems about the transfers of a job |
| `RequestManager`, `ClientCalls`, `Requests` | the RM; client library, DRMAA session and commands; both joined |
| `RequestProofs` | theorems about what clients are told |
| `Scheduler`, `InformationManager`, `Scheduling` | the scheduler process; the IM, the host pool and `im_mad.py`; both with the part of `gwd` that feeds them |
| `SchedulingProofs` | theorems about the three |
| `Recovery` | `DispatchManager` with the files of a job, the death of `gwd` and its restart |
| `RestartProofs` | theorem about it |
| `MC...` | values of constants, symmetry and constraints for TLC |

`ExecutionManager` to `Scheduling` each look at one part in detail and reduce the
others to what they say to it; `DispatchManager` does the same for the DM; so each
assumption one model makes of a neighbour is the subject of another.

Definitions that a comment marks *Mutant* are not part of the model: each is the
definition after it with a plausible mistake, kept to show that the properties
notice it.

### DispatchManager

- `job_state`, `reschedule`, `host`/`prev`/`reason`/`records`: the job and its
  history.  The code reads the hosts of the first two records only, so the history
  is that pair; a new record (`HistoryAdd`) shifts them.  "NEW" and "FREED" stand
  for the time before `gw_dm_jalloc` and after `gw_job_pool_free`.
- `deps`, `exit_ok`: `gw_job_deps` without the entries already met, and whether the
  exit code is zero, all that a dependency asks of it.
- `used_slots`, `running_jobs`, `user_running`: the counters, as the code has them,
  integers that nobody checks.  Jobs use one slot (NP = 1) and one user owns all.
- `dmq`: the DM's action queue in its order.  The head is handled by one action of
  `DMStep`; a handler that triggers an action of its own appends it.
- `conn`, `waiting`: which requests on the job have a client that waits, and
  `client_waiting`.
- `em_state`, `em_sub`, `em_retry`, `runs`: a job's EM state, a `GW_EM_SUBMIT` that
  the EM has not handled yet, a retry counter that runs, and the hosts where a
  wrapper was started and has not ended.  `tm_req` is the transfer asked for.
- `entries`, `inflight`, `scheduling`: the scheduler's list as the number of entries
  per job, its answers in the pipe, and `gw_dm.scheduling`.

Each handler of `dm/gw_dm_action_*.c` and `dm/gw_dm_state_*.c` that works on one
job is one action with all its branches (handlers that share their text are one
action with a parameter: `Prolog`, `Wrapper`, `Epilog`); the answers of a dispatch
are `DispatchPending`, `DispatchMigration`, `UncheckJob`, `DispatchRefused` and
`DispatchUnsaved`; `Schedule` is `gw_dm_schedule`, the sweep of `gw_dm_check_job`
and the round that the scheduler makes of it; `SchedulerReload` is the branch of
the listener that finds the pipe closed.

Abstractions: the EM answers each submission at most once, and the TM each request
at most once (`Execution` and `Transfer` are about that).  The EM handles a
`GW_EM_SUBMIT` later than the DM sends it and reads the head of the history then, as
the code does.  `gw_dm_schedule`'s sweep, a round and a reload are one step each
(`Scheduling` takes them apart).  A round is any sequence of at most
`DISPATCH_CHUNK` answers within the limits of `sched.conf`; limits are positive
here.  Time is nondeterministic.  A failed `gw_job_history_add` is a choice of the
run (`HistoryFaults`): "MAD" (the MADs of the host are not loaded: nothing
happened) or "FILE" (`job.history` cannot be opened: the record is pushed already).

Bounds: `MaxRecords` (a job is sent somewhere only while its history has fewer
records; two are needed for a migration and for every run after a failure, a stop
or a restart), `MaxEntries` (a rescheduling is asked for only while the list has
fewer entries of the job; with 2 a job can be listed twice).  A request of a kind is
made on a job only when no client waits for the same already, which keeps the queue
finite; the queue is otherwise unbounded.

### ExecutionManager, ExecutionMad, Execution, Wrappers

- `emq`, `dmq`: action queues; `to_mad`, `from_mad`: the lines in the pipes.
  `em_state`, `tries`, `counter` (periods until the next try, or -1), `failed_polls`,
  `cancel_tries`, `contact` (`job.contact`) are the fields of job and record.
  `EMSubmit`, `EMCancel`, `EMPoll`, `EMRetry` and the handlers of the states the MAD
  reports (`em/gw_em_state.c`) are one action each; `EMListen` is the listener with
  a case per answer; `EMReload` loads a new MAD and sends RECOVER for the wrappers
  that have a contact.
- `ExecutionMad` follows `em_mad.py` thread by thread: the main thread handles SUBMIT
  and RECOVER (`MadSubmit`...), the pool POLL and CANCEL (a task is done and its
  answer printed in two steps), the callback thread goes round `_job_list` with the
  state it had read before it sleeps.  `remote` is the remote job, which may end or
  fail whenever it likes; `Faults` names what can fail.
- `Wrappers` is the abstract service: the DM asks for an execution, at most one
  wrapper runs and only while it is asked for, and the request is closed when none
  runs any more.  The refinement maps `asked` to the jobs in states that wait for a
  wrapper and `running` to the jobs with a live remote job.

Left out: times (a poll may be due whenever the timer runs), statistics, the text
of RSL and templates, migrations (a cancel, then a submission, for the EM).
Bounds: `MaxPolls`, `MaxQueue`, `MaxRecords`, `MaxCrashes`, `MaxRuns` (more than the
retries can use), `Garbage` (what `malloc` leaves in `cancel_tries`).
`Timely` assumes that the 0.1 s for which `do_CALLBACK` sleeps are enough for the
pool's threads to print what they are about to, and that a job is dispatched again
only when nothing is under way about its last wrapper; without it a late poll ends
the next wrapper.

### TransferManager, TransferMad, Transfer

- One job as the TM sees it; jobs share nothing but the death of their MAD.
  `xfrs`, `chk_xfrs` are the arrays of transfers (tries, counter, done, success),
  `mandatory` the first entries that must be copied, `tmq`/`dmq`/pipes as above,
  `run` the host where the wrapper runs.  A file is its kind and number, a URL the
  place it names.  `TMStep` has an action per handler (`gw_tm_prolog.c`,
  `_epilog.c`, `_checkpoint.c`, `_actions.c`), `TMListen` a case per answer,
  `TMTimer` the retries, `TMReload` the new MAD and `gw_job_pool_tm_recover`.
- `TransferMad`: lines become tasks of a pool, so answers come in any order; a task
  changes directories, which are sets of files, and prints its line in one step.
  `SwallowErrors` is the ssh communicator, which only logs failed commands.
- `Transfer` adds the wrapper, which finds and leaves files in its directory.

Left out: the branch of the listener for a hard kill (`GW_TM_STATE_HARD_KILL`, in which
the TM reports nothing) and copies from host to host.

`Timely` excludes what happens only if `gwd` takes long: the TM's queue is empty when
an answer is read and the DM's when a new MAD is up; a checkpoint is neither due
while the last is being ended, nor retried before its START is answered, nor ended
in the next stage.  Bounds: `MaxDispatches`, `MaxCrashes`, one file of each kind.

### RequestManager, ClientCalls, Requests

- `active` (the listener's slots), `inbox`, `backlog`, `conn` and `replies` are the
  sockets; `connection_list` and `client_waiting` what the RM registers; `threads`
  the detached threads that authorise and register a request; `dmq`, `rmq` the
  queues of DM and RM.  The listener, each request, each thread step and each
  `gw_rm_*_success`/`_failed` handler is an action.
- The DM is its handlers of requests (`DMKill`, `DMKillHard`, `DMStop`, `DMResume`, ...) and
  what the end of a job posts.  A job is "RUN" wherever it waits or works;
  "KILL_CANCEL" and "STOP_CANCEL" last from the cancel of its wrapper to the end of the
  epilog, and then `JobKilled` and `JobStopped` answer; but a wrapper that fails
  meanwhile makes the job forget the request (`CancelForgotten`: nobody is answered), and
  a hard kill frees the job without a word to who stops it.  What "RUN" hides decides
  whether the DM accepts a signal: a choice.  Jobs that were submitted before run, are
  stopped or have failed at first.  `restarted` holds the jobs that a RESUME or a
  RESCHEDULE of a failed one has begun again.
- An answer has the `msg_type`, job and `rc` of the message (`Said`).  A wait for a job
  that has left the pool is answered BAD_JOB_ID before `gw_rm_wait_success` unlocks the
  mutex of no job (`Crash`).
- `ClientCalls` has the calls with the number of answers each reads
  (`gw_client_wait_set`, `drmaa_wait`, `drmaa_synchronize`, `drmaa_control`, ...), the
  session's list of jobs and its mutex, signals with and without waiting.

`Prompt`: a thread of the RM ends before its next action; the code does not ensure
it, and without it a registration may follow the answer it waits for.  `Told` says that
a client in a call has an answer to read or a registration that may be answered yet: a
wait whenever its job ends, a forgotten kill by the next kill of the job; a forgotten
stop need not be, and the property says so.  Left out: bytes and timeouts of sockets,
queries of pools and accounting, job attributes.

### Scheduler, InformationManager, Scheduling

- `Scheduler`: `users`, `used` (slots of a host), `jobs`, the pipes `inq` and `out`,
  and `round`, a round under way: its matches are read from `gwd` job by job.  The
  weights of the policies only order jobs and hosts; any order that puts urgent jobs
  first, and any host within limits and bans, is taken.  The matches of an array are
  asked once, of the first task it still has (`Matched`).  The scheduler has a case for
  the reason SELF_MIGRATION (`gw_scheduler_jobs.c:458`), but no call of
  `gw_dm_mad_job_schedule` sends it: a job that migrates itself goes through
  `gw_dm_pending`, which sends NONE.
- `InformationManager`: the host pool, its states, the limit on queries
  (`active_queries`, `last_checked`), the MAD's `resources`, its loss and reload.
- `Scheduling`: `gwd` around them: `gw_dm_aalloc` in its three steps (find or make
  the user, fill the array, tell the scheduler), the sweep in two steps, the reload
  of the scheduler sentence by sentence (users, hosts, jobs), dispatches, migrations
  and the end of jobs, users that go idle.

`Prompt`: gwd's threads leave no gap in which a user is freed, or hosts updated,
while a round or a submission goes on.  `Quiet` and `Settled` let gwd act when the
scheduler has read its pipe and the IM when no round is under way.  Bounds:
`MaxEvents` (timers count 1, faults 2) and the constraint `Small` of `MCScheduling`: with
jobs there is one fault or two timers, without jobs the timers may ask again after the
MAD has died with queries, and it may die with what they asked.

### Recovery

The variables and actions of `DispatchManager`, with each step writing the files as
the code does (`Save`): `log` is what the replay of `job.state` makes of its lines,
`recs` the lines of `job.history`, `contact` and `output` the wrapper's.  `Crash`
forgets everything in memory; `Recover(j)` is `gw_job_recover` and
`gw_job_recover_last_state_transition` for one job, in any order of the
directories, with the threads of `gwd` at work in between, as `gwd_main` starts them
before; `DepConsistency` ends the recovery.  Clients come back after it.  Bound:
`MaxCrashes`.

## 3. Runs

| Run | Instance | Shows |
|-----|----------|-------|
| `DMLife` | 2 jobs, 1 host, 2 records; one job with PRE_WRAPPER, wrapper based and rescheduled on failure; STOP; dispose | host and user get back all they were charged (`AllReturned`, `UserReturned`), over every way in which prolog, wrapper and epilog end or fail |
| `DMMigration` | 1 job, 2 hosts, 2 records, 2 entries; RESCHEDULE, STOP, RESUME; both limits; dispatches refused | one migration in every order with its end, failure, stop and restart: `HistoryExists`, `OneRun`, and the host where it runs is charged (`SlotsCharged`) |
| `DMRaces` | 1 job, 2 hosts, 2 records; HOLD, RELEASE, KILL_HARD; scheduler crashes | `TypeOK` (the list never has a negative length although the DM deletes entries that are gone) and `NotLost` |
| `DMDeps` | 3 jobs, 1 host; KILL; `job.history` may fail | `DepsRespected` for a job that waits for the failure of two others |
| `DMLive` | 2 jobs, MAX_RUNNING_USER 1; WAIT | `JobsEnd`, `WaitersTold` under `FairSpec` |
| `EMWrapper` | 1 job, 2 records, 3 retries; failed submissions and templates, unknown states | `Execution` implements `Wrappers` (`ServiceSpec`); `OneRun`; each end frees one slot (`SlotFreedOnce`) and every active job is taken off (`CountersReturned`) |
| `EMCrash` | 1 job, 1 retry; STOP; one crash of the MAD, failed cancels and recoveries | `CancelEnds`, `WrapperEnds` |
| `TMStage` | 2 hosts, one file of each kind, 2 tries; STOP, KILL, MIGRATE, CHECKPOINT; failing copies, directories, wrappers | `InputsThere`, `OneReport`, `DoneIsDone`, `AnswersExpected`, `DirRemoved`, `OutputsKept` |
| `TMCrash` | 1 host; one crash of the MAD; failing copies and removals | `StageEnds` |
| `RMClients` | a DRMAA program with two calls, a user's command (wait, status, hard kill, any signal; resume, hold, release and status of the first job and during the program's first call only, `Small`); 2 slots, 2 jobs | `OneAnswer`, `AnswerMine`, `AnswerTrue`, `Told`, `WaitingCounted` |
| `SDRounds` | 2 hosts of 1 slot, an array of 2 jobs and another job, 2 users | `NoOvercommit`, `Listed`, `OneRound`, `OneQuery` |
| `RCRestart` | 2 jobs, the second waits for the first, which may migrate; gwd dies twice | `Recoverable`, `NotStranded`, `StillCharged` (`HostCharged` and `UserCharged`), `DepsRespected` |

Deadlock is checked in the DM's runs and in `RCRestart`, which never stop; in the
others the bounds let the system come to rest.

The runs are small, but closed under the orders of their messages: a queue holds
several messages of a job at once, and answers reach it in any order with the
requests of others.  Retries, records, calls and crashes are as many as the case
that matters needs: a try after a failed one, a second record for a migration, a
crash during what follows a crash.

**Limits of what holds**, found by enlarging the runs:

- with a third record (a second dispatch after a migration was refused, or after a
  stale answer) `SlotsCharged` and `HostCharged` fail, and with a fourth `OneRun`,
  all by the same cause: a job dispatched twice.  Where that is excluded they are
  proved for any number of records (section 4);
- `AllReturned` and `UserReturned` hold without kills (a kill between dispatch and
  prolog leaks, a hard kill never gives back the user's running job), and `AllReturned`
  without migrations: one that finds its wrapper over has charged a host that nobody
  gives back (`DMMigration` with `AllReturned`);
- `NotLost` fails with `HistoryFaults`: a refused dispatch leaves a PENDING job
  without an entry, and nothing retries it;
- `ServiceSpec` of `Execution` fails as soon as one hypothesis of `Steady` (section 4)
  is dropped: with a pre-wrapper, whose record the wrapper shares; with a cancel, given up
  after three reports; when a state cannot be asked for, in a poll or a callback; when the
  MAD dies; when a remote job fails; and without `Timely`.  TLC finds
  `OneRun` violated too in all of these but the cancel and `Timely`;
- with `MaxPolls` = 2, two answers to polls of a job may be printed in the other order:
  an ACTIVE that comes after the DONE is counted for ever (`CountersReturned`), and a
  second end frees the slot twice (`SlotFreedOnce`).  `OneRun` and `ServiceSpec` are
  proved for any `MaxPolls`;
- `DoneIsDone` and `OneReport` without `Timely`; `OutputsKept` with
  `SwallowErrors`; `InputsThere` with a migration to the same host;
- `AnswerMine`, `OneAnswer` and `Told` fail when threads are late (`Prompt` FALSE of
  `Requests`); `AnswerTrue` does not (section 4), but fails without its exception for
  jobs that begin again: a wait for a job that failed and was rescheduled is told
  SUCCESS;
- `NoOvercommit` and `OneRound` fail in one of the gaps that `Prompt` closes in
  `Scheduling`, a reload that begins in a sweep: the SCHEDULE of the sweep comes on
  top of the reload, which clears `gw_dm.scheduling` at its end, and the next sweep
  starts a second round.  The other gaps do them no harm (section 4);
- `Recoverable` is stated of the first restart: `gw_dm_prolog` writes PROLOG again
  for a job recovered in PROLOG, whose state in memory is the one before, and the
  second recovery then looks for a record that was never added.  `StageEnds` leaves
  migrations out: a MIGR_PROLOG is not restarted with its MAD.

**What the code does otherwise than its documents say.**  `PROJECT.json` lists them
under "findings" with the lines and the quotations:

- *DM*: a job held between dispatch and prolog runs; one killed there leaves its host
  charged; a wrapper that fails while its kill is carried out makes the job forget
  the kill; a job submitted after its dependencies ended waits for ever; a stale
  answer to a rescheduling dispatches a job twice, or migrates one for which nobody
  asks it; a migration may go to the host the job is on, and empty its directory, and
  one that finds its wrapper over leaves a host charged.
- *EM*: a callback that could not ask the batch system submits the wrapper again
  while the first runs; a cancel is given up after three reports, and the number of
  tries starts from uninitialised memory.
- *TM*: the ssh communicator answers SUCCESS to a failed copy, so the output is
  removed with the directory; a checkpoint's END that comes late ends the next stage.
- *Recovery*: the second restart drops jobs; a job recovered in EPILOG has exit code
  0 and releases what waited for its success; one without contact leaves a slot
  charged; cancelled wrappers are not followed any more.
- *IM and scheduler*: one failed monitoring bans a host until gwd is restarted, and a
  new MAD fails all of them; deleting a user shifts the users of the others' jobs; a
  DISPATCH_CHUNK of 0 still bounds the second pass of a round.
- *Clients*: waiting for any job of a session may dispose of one that runs; a user
  who waits for his killed job is told of an authorisation failure, one who waits for
  a job that failed and is rescheduled of a success.

The definitions `HeldStays`, `KillFinal`, `DepsReleased` (`DispatchProperties`),
`RetryAfterFailure` (`Execution`) and `Innocent` (`Requests`) state what those lines
promise; TLC finds them violated, so no passing run checks them.

### Fairness

`DMLive`: the DM's action thread and its listener keep running (weak), a transfer is
answered, the EM submits and retries, and ends a submitted job at last (strong: a
retry disables the end for a while, and `number_of_retries` bounds the retries).
`gw_am_loop` starts the timer only when it finds the queue empty after the timeout,
so `Timer` has strong fairness and the clients are assumed to leave the queue empty
again and again (`QueueDrains`); nothing in the code ensures that.  A round may
leave a job out; `SchedulerFair` says that a job which could be sent in infinitely
many rounds is sent in one of them.  Nothing is assumed of clients, of submission or
of crashes.  `DMLive` leaves out rescheduling on failure and wrapper based jobs:
both may restart a job for ever, and `MaxRecords` would cut that short.

`EMCrash`: weak fairness of the threads of gwd and of the MAD, each retry and poll
of a job and each task of the pool; strong fairness of the callback thread, because
its sleep outlasts the printing that may disable it.  A remote job need not end;
`WrapperEnds` assumes it in its premise `RemoteEnds`, `CancelEnds` does not.
`TMCrash`: weak fairness of the DM, TM, timer, listener and reload and of the MAD's
main thread and of its tasks by kind.

## 4. Proofs

`DispatchProofs`, for all values of the constants that satisfy `DMAssumption`:

- `TypeCorrect`: `Spec => []TypeOK`.  The hard part is that the number of entries
  stays a natural number: a deletion removes at most one (`EntriesType`), and a round
  uses no more entries of a job than there are (`RoundType`).  A counter that is
  decremented for a job without a host changes nothing (`CounterType`).
- `HistoryCorrect`: `Spec => []HistoryExists`.  `HistoryExists` is not inductive: a
  queued `STATE_MIGR_PROLOG` would enter MIGR_PROLOG with no second record.
  `HistoryInv` says that whatever can take a job further needs its record: its
  state, every message of DM, EM and TM in the queue, a submission or retry in the
  EM, a wrapper, a transfer; that a second record implies a first; and that the
  messages and states of a migration need the second.  `gw_job_pool_free` destroys
  the records while messages may be queued, so messages count only while the job
  exists, and identifiers are not reused.  Three frame lemmas (`HistoryFrame`: a step
  of a job that has its records; `HistoryIdle`: client requests and idle states;
  `HistoryFree`) carry `HistoryStep`, which has one step per action.  It holds with
  scheduler crashes, hard kills and failing histories, beyond the bounds of any run.

There too, for all values in which histories can be saved:

- `PendingNotLost`: `HistoryFaults = {}` implies `Spec => []NotLost`.  `NotLost` needs
  one companion, `RoundOpen`: answers are in the pipe only while `gw_dm.scheduling` is
  set, so a new round never replaces answers that were not read.  The bookkeeping
  behind the step is: an entry that a round takes from a job comes back as an answer
  that sends it to a host (`PendingSchedule`); the listener drops such an answer only
  of a job that is not PENDING, and otherwise posts the job's prolog
  (`PendingListener`); only `gw_dm_prolog` takes that message from the queue
  (`KeptByHandler`, `NotLostFrame`); every handler that makes a job PENDING adds an
  entry, and every one that deletes an entry takes its job out of PENDING
  (`PendingHandlers`); a new scheduler is told of all PENDING jobs (`PendingReload`).
  The assumption is needed: see section 3.

`RestartProofs`, for all values of the constants:

- `FirstRestart`: `RSpec => []Recoverable`.  The records of `job.history` are added by
  the listener thread, the states that read them are written later by the DM
  thread, so the lines and the records do not agree at any moment: the message that
  leads from one to the other is in the queue.  The invariant `RInv` counts: the
  records that the lines of a job need plus its messages PROLOG and MIGR_CANCEL in the
  queue (`Unread`) are at most the lines of `job.history`.  `UnreadAppend` and
  `UnreadTail` say what posting and taking a message do to that number; `TakesOne`
  that a handler which enters a reading state takes such a message; `DispatchAdds`
  that a dispatch which posts one adds a record; `CalmSteps` that nothing else
  touches either; `BalancedStep` puts them together.  A crash keeps the files, a
  recovery reads them, and only afterwards are the lines of a recovered job written
  twice, which is why the theorem stops at the first restart.

`ActivityProofs`, for all values in which a PENDING job is offered once (`OneOffer`):

- `OneWrapper`: `Spec /\ OneOffer => []OneRun`.  Nothing in a state with one wrapper
  says that a second one is not on its way: a WRAPPER message in the queue, a
  submission the EM has not handled, a retry counter, or an answer that will dispatch
  the job.  `ActivityInv` says that a job is in one hand at a time: at most one message
  that takes it further (`OneMove`), or one promise of the EM (`OneInEM`), or one
  transfer (`OneHand`); that each finds the job in a state it fits (`Fits`,
  `StateFits`); and that a PENDING job has one entry, one answer or one
  `GW_DM_STATE_PROLOG` (`OfferedOnce`).  `GW_DM_STATE_MIGR_CANCEL` is the exception that
  shapes it: it is queued while the EM has the job and leaves it there.  Queues enter
  through a few lemmas on what appending and taking one message do to `Moves`.
- `OneOffer` is needed, and `DMMigration` enlarged to four records shows it: the scheduler does
  not look for an entry of a job before it adds one, and a dispatched job stays PENDING
  until its prolog is handled, so a job with two entries is sent to two hosts
  (finding at `dm/gw_dm_action_dispatch.c:66`).  `OneOffer` names the ways to a second
  entry: a reloaded scheduler is told of every PENDING job; HOLD and RELEASE, or a
  RESCHEDULE, add an entry; a job the daemon wants to migrate keeps its entry when it
  comes back to PENDING (rescheduled on failure, wrapper based, or stopped and
  resumed).  Migrations by suspension or by the rescheduling interval are within it.

There too, with `OneOffer` and for users who release no job (`HeldByDeps`):

- `DependenciesMet`: `[]DepsRespected`.  `DepsInv` keeps, for a held job, that each
  dependency no longer in `deps` has ended as it should, and for a job past HOLD that
  all have.  `OneOffer` is needed here too: a second dispatch runs the handlers of a job
  that is ZOMBIE already, and would change the exit code that released another job.

`ChargeProofs`, with `OneOffer` and without migrations and hard kills (`StaysOnHost`),
for a finite set of jobs:

- `WrappersCharged`: `[]SlotsCharged`, and without kills `ChargesReturned`:
  `[]AllReturned`, and `UserChargesReturned`: `[]UserReturned`.  `ChargeInv` gives each counter its meaning:
  `used_slots` of a host is the number of jobs between their dispatch and the handler
  that gives the slot back, which is the *queueing* of the next message and not the
  job's next state (`HoldsSlot`); the running jobs of host and user are those sent there and
  not gone (`OnHost`).  With kills a counter is only at least that number, because a kill
  between dispatch and prolog frees a job without its counters.  A migration charges
  two hosts: with one TLC checks `SlotsCharged` (`DMMigration`) and, over a restart,
  `StillCharged` (`RCRestart`); `AllReturned` fails (section 3).  A hard kill guesses from
  the state (hazard at `dm/gw_dm_action_kill.c:142`) and is in no run that checks charges.

`ExecutionProofs`, for any jobs, hosts, retries and bounds, where the reports of the MAD
can be trusted (`Steady`: `Timely`, no pre-wrapper, no cancel, and of the faults only
those of a submission, of an RSL, and a state GridWay has no name for):

- `OneWrapper`: `Steady /\ Spec => []OneRun`, and `Implements`:
  `Steady /\ Spec => ServiceSpec`, the refinement of `Wrappers`.  `ServiceInv` has two
  halves.  `Submission`: while a job is being submitted one thing is under way about it,
  in the EM's queue, in one of the pipes, in the DM's queue or in its retry counter
  (`InEM` to `InTimer`), and the MAD knows nothing of it; any other message about a job
  means that no submission is.  So each remote job is the only one that lives, and the
  one in `_job_list` (`ListTrue`).  `Ends`: whatever says that a wrapper is done, in a
  queue or in a thread, finds no remote job alive and the list without it (`Over`), which
  `do_CALLBACK` ensures by deleting before it reports, except while it holds the job
  itself (`CallbackOK`).  The lemmas follow the handlers; a step about one job leaves
  what is said of the others where it was (`Aside`, `StepAbout`).
- In the refinement `DMDispatch` is `Ask`, an accepted SUBMIT is `Start`, the end of a
  remote job `Finish`, the DM's EPILOG `Close` (which `Ends` allows); all others stutter.
- TLC finds `ServiceSpec` violated when any hypothesis of `Steady` is dropped (section 3):
  none is there for the proof's sake.
- `TypeCorrect` (`[]TypeOK`), `SlotsFreed` (`[]SlotFreedOnce`) and `CountersZero`
  (`[]CountersReturned`), under `Unhurried`: `Steady`, and a poll of a job is answered
  before the next one is due (`MaxPolls` at most 1, as in `EMWrapper`; two polls are
  enough to break both counters, section 3).  `ChargeInv` adds four parts to
  `ServiceInv`.  `Polled`: a poll is in one place, the pipe to the MAD, the pool, a thread
  about to print or the pipe back, so no answer overtakes another.  `Ordered`: once it is
  said that a wrapper is done, nothing that follows in a pipe, in the pool or in the EM's
  queue says otherwise, and the DM is told once (`OrderOf`, `ToldOf`).  `Charges`:
  `used_slots` of a host is the number of its jobs whose end the DM has not handled,
  `active_jobs` the number of its jobs that are ACTIVE.  `Tries` and `Limits` bound the
  other counters: a job with SUBMIT in the EM's queue or with a retry to come has at most
  `number_of_retries` tries behind it.  That all counters are back to zero at rest is
  then a matter of both sets being empty.  TLC finds one of the two violated when any
  hypothesis of `Unhurried` is dropped: `SlotFreedOnce` with a pre-wrapper, with a remote
  job that fails and when a callback cannot ask for a state; `CountersReturned` with a
  cancel, when the MAD dies, when a poll fails and without `Timely`.

`TransferProofs`, for any hosts, files, tries, dispatches and crashes of the MAD, with
copies, removals and wrappers that fail, and all requests of the clients, where
`Punctual` holds: `Timely`, `~SwallowErrors`, and no host in its own `MigrateTo`:

- `TypeCorrect`, `FilesStay` (`[]InputsThere`), `ReportedOnce` (`[]OneReport`),
  `FilesCopied` (`[]DoneIsDone`), `ProtocolKept` (`[]AnswersExpected`), `OutputsSafe`
  (`OutputsKept`), and with `"RMDIR" \notin Faults` `DirectoryGone` (`[]DirRemoved`).
  All rest on one invariant, `StageInv`, since none is inductive by itself: that a stage is
  reported truthfully needs that the answers which end it are its own, and these are its
  own because nothing was under way when it began.  Its parts:
- `Turn`: the job is in the hands of the DM (a message in its queue), of the TM with the MAD,
  or of the wrapper.  There is at most one message, and `Fits` says what it finds:
  PROLOG_DONE the input files on the host, EPILOG_DONE the output here, each of them a
  TM at rest.
- `Traffic`: what is in the pipes and in the MAD's pool fits `tm_state`, in one of four
  shapes: nothing (`Silent`), one line of a stage or its answer (`Alone`), the copies of a
  stage, one for each file at most (`Copying`), or what a cancelled checkpoint left, with its
  END last (`Cancelling`).  A copy under way is of a file that is not done and waits for
  no new try (`Open`), so an answer never counts for a file that was counted.
- `Placed`, `FilesListed`, `Progress`: the directory of a running wrapper has its input;
  the array holds the files of the stage, those that `mandatory` counts first; and an entry
  with `success` has its file where it belongs.  This is what makes the reports true.
- The proof has a lemma for each handler and shape.  Answers come in any order, so the
  copies under way are told apart by their file, not by their place in a queue.
- TLC finds a property violated without each hypothesis: `DoneIsDone`, and `TypeOK` even,
  without `Timely` (a late END ends the next stage); `DoneIsDone` and `OutputsKept` with
  `SwallowErrors`; `InputsThere` with a migration to the same host; `DirRemoved` where a
  removal may fail (`RmdirAnswered` does not look at the result).

`RequestProofs`, for any clients, jobs, slots and calls of `Requests`:

- `TypeCorrect`: `Spec => []TypeOK`, however late the threads are.  `TypeInv` gives every
  message, queue and list its fields, and `Wired` says that a client's slot is its own
  and that nothing in its inbox closes it.
- `AnswersTrue`: `Spec => []AnswerTrue`, however late the threads are.  What is told was
  true when the DM posted it, and the RM sends it later: `Truth` follows it through the
  queue of the RM (`TruthOf`) to what the client may read (`IsTrue`).  `Stays` is what
  remains of it: the job is in the state it was said to be in, or gone, or a user has had
  it begin again.  `Advance` says what a step may do to a job that is over or stopped,
  and each handler of DM and RM and each end of a job is shown to advance and to add
  nothing false.
- `WaitsCounted`: `Admins = {} /\ Spec => []WaitingCounted`, however late the threads
  are.  A wait is registered by a thread and counted later by the DM, so `CountInv` adds
  what the DM has not seen: `client_waiting` and the waits in its queue (`Pending`) are
  together at least the waits in the list.  `RestCount` and `RegisteredCount` say what
  removing and adding places does to the one number, `PendingTail` and `PendingAppend`
  what taking and posting does to the other; each handler of the RM counts only what it
  removes (`RestKeepsCount`).  A new job starts with 0, and nobody has named it before:
  that is what `Admins = {}` is for, since gwadmin alone may wait for a job that does not
  exist yet.

`SchedulingProofs`, for all values of the constants of `Scheduling`, `Prompt` or not:

- `RoundsApart`: `Spec /\ [][CalmReload]_vars => []OneRound`.  `RoundInv` says where a
  round can be: in a sweep, as SCHEDULE in the one pipe, under way, or as SCHEDULE_END
  in the other, one place at a time (`OnePlace`), with `gw_dm.scheduling` set in all of
  them and no reload under way (`FlagSet`), and nothing in the pipe of a dead scheduler
  (`DeadIsEmpty`).  `CalmReload` is the assumption that no reload begins between the
  setting of the flag and the SCHEDULE; `PromptReload` proves it of `Prompt`.
- `QueriesOnce`: `Spec => []OneQuery`.  `QueryInv`: every query that waits has its
  record, `discovering` or a host MONITORING in the pool, so none is asked again, and
  the counter is at least their number.  The timer sends several queries in one step;
  `ScanOK` is what holds between two hosts of its scan, and `MonitorHostsKeeps` the
  induction along it.
- `RoomForJobs`: `Spec /\ [][CalmReload]_vars => []NoOvercommit`.  `SlotInv` counts the
  slots from the match to the charge: what a round counts with is at most what a host
  has left, though jobs end meanwhile (`Matching`, `Offer`); the answers in the pipe
  and the jobs that run never exceed the capacity; and an answer in the pipe means
  that its round has ended (`Answers`), so that nothing is charged while the next one
  counts.  `TakenFit` is the induction over the attempts of a round: each counted
  those before it.  `GrantedPrinted` maps the answers printed to the attempts one to
  one.

The provers instantiate no theorem with an operator parameter, so induction is done
over sets: `SetInduction` (from the well-foundedness of `<` on the numbers) is applied
to the set of numbers for which the claim holds.  That was enough for the two
recursions above; the recursive function of `MonitorHosts` is shown to exist in
`ScanExists`.  `CountByMap`, `OrderExists` and the lemmas about sequences that follow
them are general.

Model-checked only: the liveness properties (TLAPS proves none of them); `OneAnswer`,
`AnswerMine` and `Told` of the RM, which need `Prompt`; `Listed` and the types of
`Scheduling`; `NotStranded` and `StillCharged`; `SlotsCharged` of a job that migrates.

## 5. Plan

1. *Done*: DM, EM, TM, RM, scheduler, IM, recovery, their MADs and clients.  Proved of
   the DM: types, history, `NotLost`, and where jobs are offered once `OneRun`,
   `DepsRespected` and the charges; of the execution of wrappers types, `OneRun`, the
   refinement `ServiceSpec` and the counters of hosts; of scheduling `OneRound`, `OneQuery` and
   `NoOvercommit`; of the TM all its invariants and `OutputsKept`; of the RM types,
   `AnswerTrue` and `WaitingCounted`; of recovery the first restart.
2. Theorems: types of `Scheduling`; `SlotsCharged` of a job that migrates.
3. The C drivers of GridWay and the daemon's own start and end.

## 6. Not modelled

- Generated parsers (conf, templates, rank and requirement expressions) and the text
  of templates, environments, RSL, JDL and JSDL; logs, statistics, accounting: they
  compute or format data and have no state that the protocols depend on.
- Printing and arguments of the commands; DRMAA's attributes and the Java, Perl,
  Python and Ruby wrappers of its C binding.
- The GridWay MADs (GRAM, GridFTP, ...), which DRM4G replaces by its own, the batch
  system managers and the SSH sessions of DRM4G.
- Start and end of `gwd`: lock file, signals, configuration.
- Memory errors of the C code (freed jobs used after unlocking, NULL mutexes) are
  below the level of the models; those met are listed among the hazards.

The map therefore leaves out most lines by nature: of the 72,663 lines of the
implementation some 17,000 are generated parsers, 4,200 the Ruby wrapper of DRMAA,
and as many again JNI code, tests and the text of job descriptions.

## 7. Checking it

    tlc -workers 2 -config DMLife.cfg MCDispatch.tla
    tlc -workers 2 -config RCRestart.cfg MCRecovery.tla
    tlapm DispatchProofs.tla
    tlapm ExecutionProofs.tla
    tlapm SchedulingProofs.tla
    tlapm TransferProofs.tla
    tlapm RequestProofs.tla

Every run takes at most two or three minutes, the proofs of a module a few; those of
`TransferProofs`, `RequestProofs` and `ExecutionProofs` take the longest.
