----------------------------- MODULE Scheduling -----------------------------
(***************************************************************************)
(* gwd, its scheduler and its Information manager together: how the jobs   *)
(* get their hosts.  A job is followed only as far as the scheduler hears  *)
(* of it: the wrapper's end and the epilog are one step, a migration ends  *)
(* in one step, every job asks for one slot (np = 1) and a host has one    *)
(* queue, so that a host's used slots are its running jobs.                *)
(***************************************************************************)
EXTENDS InformationManager

CONSTANTS
  Owner,       \* the owner of a job
  Submissions, \* the sequences of jobs submitted with one request: a job or an array
  NoUser, NoSubmission,
  Prompt       \* gwd's threads leave no gap: a user is not freed while a job of
               \* his is submitted or while a round goes on, nor are hosts updated
               \* while one goes on, and a reload does not begin in a sweep

ASSUME SchedulingAssumption ==
  /\ NoUser \notin {Owner[j] : j \in Jobs}
  /\ \A s \in Submissions : s # <<>> /\ ToSet(s) \subseteq Jobs
  /\ Prompt \in BOOLEAN

VARIABLES
  upool,      \* gw_user_pool.pool: name, active_jobs, running_jobs
  job,        \* of a job: state, uid, host, history, reason, reschedule, from
  running,    \* of a host: used_slots, running_jobs and queue_running_jobs
  prologs,    \* GW_DM_STATE_PROLOG actions queued for a job
  dm,         \* the submission the DM works on: jobs left to fill, uid, useradd, step
  scheduling, \* gw_dm.scheduling
  sweep,      \* gw_dm_schedule has set the flag and not yet sent SCHEDULE
  reload      \* what gw_dm_listener does next about a dead scheduler

gwdv == <<upool, job, running, prologs, dm, scheduling, sweep, reload>>
vars == <<gwdv, schedv, imv>>

NoJobYet == [state |-> "NONE", uid |-> 0, host |-> NoHost, from |-> NoHost,
             history |-> {}, reason |-> "NONE", reschedule |-> FALSE]

Idle == [sub |-> NoSubmission, uid |-> 0, useradd |-> FALSE, left |-> <<>>]

Init ==
  /\ SchedulerInit(Monitored0) /\ IMInit
  /\ upool = [u \in UserIds |-> NoUser]
  /\ job = [j \in Jobs |-> NoJobYet]
  /\ running = [h \in Hosts |-> 0]
  /\ prologs = [j \in Jobs |-> 0]
  /\ dm = Idle
  /\ scheduling = FALSE /\ sweep = FALSE /\ reload = "NO"

InPool(j) == job[j].state \notin {"NONE", "FREED"}

\* The sentences of gw_dm_mad.c.
USER_ADD(u) == [act |-> "USER_ADD", uid |-> u, running |-> upool'[u].running]
USER_DEL(u) == [act |-> "USER_DEL", uid |-> u]
HOST_MONITOR(h) == [act |-> "HOST_MONITOR", hid |-> h, uslots |-> running'[h]]
JOB_SCHEDULE(j, reason) ==
  [act |-> "JOB_SCHEDULE", jid |-> j, uid |-> job'[j].uid, reason |-> reason]
JOB_DEL(j) == [act |-> "JOB_DEL", jid |-> j]
JOB_FAILED(j) == [act |-> "JOB_FAILED", hid |-> job[j].host, uid |-> job[j].uid]
JOB_SUCCESS(j) == [act |-> "JOB_SUCCESS", hid |-> job[j].host, uid |-> job[j].uid]
SCHEDULE == [act |-> "SCHEDULE"]

If(test, m) == IF test THEN <<m>> ELSE <<>>

\* Mutant: a job more than were counted is taken from the user.
CountMore(u, active, run) ==
  upool' = IF upool[u] = NoUser THEN upool
           ELSE [upool EXCEPT ![u].active = IF active < 0 THEN @ - 2 ELSE @ + active,
                              ![u].running = @ + run]

\* gw_user_pool_inc_jobs, _dec_jobs and the running jobs.
Count(u, active, run) ==
  upool' = IF upool[u] = NoUser THEN upool
           ELSE [upool EXCEPT ![u].active = @ + active, ![u].running = @ + run]

-----------------------------------------------------------------------------
(* The DM and the UM.                                                      *)

\* The thread of the DM is between two actions.
Ready == dm = Idle /\ ~sweep

\* gw_dm_jalloc, gw_dm_aalloc: the user is looked up, or added.
Lookup(s) ==
  /\ Ready
  /\ \A j \in ToSet(s) : job[j].state = "NONE"
  /\ LET owner == Owner[Head(s)]
         mine == {u \in UserIds : upool[u] # NoUser /\ upool[u].name = owner}
         free == {u \in UserIds : upool[u] = NoUser}
         u    == IF mine # {} THEN CHOOSE x \in mine : \A y \in mine : x <= y
                 ELSE CHOOSE x \in free : \A y \in free : x <= y
     IN
     /\ dm' = [sub |-> s, uid |-> u, useradd |-> mine = {}, left |-> s]
     /\ IF mine = {}
          THEN /\ upool' = [upool EXCEPT ![u] = [name |-> owner, active |-> 1, running |-> 0]]
               /\ Write(<<USER_ADD(u)>>)
          ELSE UNCHANGED <<upool, inq>>
  /\ UNCHANGED <<job, running, prologs, scheduling, sweep, reload, events>>

\* A job is filled and PENDING; the tasks of an array are sent one by one.
Fill ==
  /\ dm.left # <<>>
  /\ LET j == Head(dm.left) IN
     /\ job' = [job EXCEPT ![j] = [NoJobYet EXCEPT !.state = "PENDING", !.uid = dm.uid]]
     /\ IF ArrayOf[j] = NoArray THEN UNCHANGED inq
        ELSE Write(<<JOB_SCHEDULE(j, "NONE")>>)
  /\ dm' = [dm EXCEPT !.left = Tail(@)]
  /\ UNCHANGED <<upool, running, prologs, scheduling, sweep, reload, events>>

\* The user's jobs are counted and a single job is sent.
Submitted ==
  /\ dm # Idle /\ dm.left = <<>>
  /\ LET u == dm.uid
         j == Head(dm.sub)
         n == Len(dm.sub) - (IF dm.useradd THEN 1 ELSE 0)
         single == ArrayOf[j] = NoArray
     IN
     /\ Count(u, n, 0)
     /\ UNCHANGED job
     /\ Write(If(upool[u] # NoUser /\ ~(single /\ dm.useradd), USER_ADD(u)) \o
              If(single, JOB_SCHEDULE(j, "NONE")))
  /\ dm' = Idle
  /\ UNCHANGED <<running, prologs, scheduling, sweep, reload, events>>

\* No round is under way.
Settled == round = NoRound /\ out = <<>> /\ ~sweep

\* gw_user_pool_check_users: a user without jobs for GW_MAX_IDLE_TIME.
UserIdle(u) ==
  /\ upool[u] # NoUser /\ upool[u].active = 0
  /\ Prompt => dm.uid # u /\ Settled
  /\ upool' = [upool EXCEPT ![u] = NoUser]
  /\ Write(<<USER_DEL(u)>>)
  /\ UNCHANGED <<job, running, prologs, dm, scheduling, sweep, reload, events>>

\* gw_dm_kill of a job that waits for a host, or gw_dm_wait of one that is over.
Freed(j) ==
  /\ Ready
  /\ job[j].state \in {"PENDING", "ZOMBIE"}
  /\ job' = [job EXCEPT ![j].state = "FREED"]
  /\ Count(job[j].uid, -1, 0)
  /\ Write(If(job[j].state = "PENDING", JOB_DEL(j)) \o
           If(upool[job[j].uid] # NoUser, USER_ADD(job[j].uid)))
  /\ UNCHANGED <<running, prologs, dm, scheduling, sweep, reload, events>>

\* gw_dm_prolog, and the steps to the WRAPPER state.
Prolog(j) ==
  /\ Ready
  /\ prologs[j] > 0
  /\ prologs' = [prologs EXCEPT ![j] = @ - 1]
  /\ job' = IF job[j].state = "PENDING" THEN [job EXCEPT ![j].state = "WRAPPER"] ELSE job
  /\ UNCHANGED <<upool, running, dm, scheduling, sweep, reload, events, inq>>

\* gw_dm_wrapper_done to gw_dm_zombie.
EndOk(j) ==
  LET h == job[j].host IN
  /\ Ready
  /\ job[j].state = "WRAPPER"
  /\ job' = [job EXCEPT ![j].state = "ZOMBIE", ![j].reschedule = FALSE]
  /\ running' = [running EXCEPT ![h] = @ - 1]
  /\ Count(job[j].uid, 0, -1)
  /\ Write(If(job[j].reschedule, JOB_DEL(j)) \o
           <<USER_ADD(job[j].uid), HOST_MONITOR(h), JOB_SUCCESS(j)>>)
  /\ UNCHANGED <<prologs, dm, scheduling, sweep, reload, events>>

\* gw_dm_wrapper_failed to gw_dm_pending: the job waits for a host again.
EndFail(j) ==
  LET h == job[j].host IN
  /\ Ready
  /\ job[j].state = "WRAPPER"
  /\ Fault
  /\ job' = [job EXCEPT ![j].state = "PENDING", ![j].reschedule = FALSE,
                        ![j].reason = "EXECUTION_ERROR"]
  /\ running' = [running EXCEPT ![h] = @ - 1]
  /\ Count(job[j].uid, 0, -1)
  /\ Write(If(job[j].reschedule, JOB_DEL(j)) \o
           <<USER_ADD(job[j].uid), HOST_MONITOR(h), JOB_FAILED(j), JOB_SCHEDULE(j, "NONE")>>)
  /\ UNCHANGED <<prologs, dm, scheduling, sweep, reload>>

\* gw_dm_reschedule: the user asks for another host.
Reschedule(j) ==
  /\ Ready
  /\ job[j].state = "WRAPPER"
  /\ Fault
  /\ job' = [job EXCEPT ![j].reschedule = TRUE, ![j].reason = "USER_REQUESTED"]
  /\ Write(<<JOB_SCHEDULE(j, "USER_REQUESTED")>>)
  /\ UNCHANGED <<upool, running, prologs, dm, scheduling, sweep, reload>>

\* A migration is over: the job runs on its new host, whose record is the first
\* of its history.
Migrated(j) ==
  /\ Ready
  /\ job[j].state = "MIGR"
  /\ job' = [job EXCEPT ![j].state = "WRAPPER", ![j].from = NoHost]
  /\ running' = [running EXCEPT ![job[j].from] = @ - 1]
  /\ Write(<<HOST_MONITOR(job[j].from)>>)
  /\ UNCHANGED <<upool, prologs, dm, scheduling, sweep, reload, events>>

-----------------------------------------------------------------------------
(* The rounds.                                                             *)

\* Mutant: a round begins whether one is under way or not.
SweepBeginsAny ==
  /\ Ready /\ jobs # <<>>
  /\ Len(SelectSeq(inq, LAMBDA m : m.act = "SCHEDULE")) < 2
  /\ scheduling' = TRUE /\ sweep' = TRUE
  /\ UNCHANGED <<upool, job, running, prologs, dm, reload, events, inq>>

\* gw_dm_schedule, the timer of the DM.
SweepBegins ==
  /\ Ready
  /\ ~scheduling
  /\ scheduling' = TRUE /\ sweep' = TRUE
  /\ UNCHANGED <<upool, job, running, prologs, dm, reload, events, inq>>

\* gw_dm_check_job_suspension and _rescheduling of the job j: both may ask.
Checks(j, why) ==
  /\ job[j].state = "WRAPPER" /\ job[j].reason = "NONE"
  /\ why # {} /\ Fault
  /\ job' = [job EXCEPT ![j].reschedule = TRUE,
               ![j].reason = IF "RESCHEDULING_TIMEOUT" \in why
                               THEN "RESCHEDULING_TIMEOUT" ELSE "SUSPENSION_TIME"]
  /\ Write(If("SUSPENSION_TIME" \in why, JOB_FAILED(j)) \o
           If("SUSPENSION_TIME" \in why, JOB_SCHEDULE(j, "SUSPENSION_TIME")) \o
           If("RESCHEDULING_TIMEOUT" \in why, JOB_SCHEDULE(j, "RESCHEDULING_TIMEOUT")) \o
           <<SCHEDULE>>)

SweepEnds ==
  /\ sweep
  /\ sweep' = FALSE
  /\ \/ Write(<<SCHEDULE>>) /\ UNCHANGED <<job, events>>
     \/ \E j \in Jobs, why \in SUBSET {"SUSPENSION_TIME", "RESCHEDULING_TIMEOUT"} :
          Checks(j, why)
  /\ UNCHANGED <<upool, running, prologs, dm, scheduling, reload>>

\* gw_rm_job_match, and gw_rm_array_match, which asks for the first job that the
\* array of j still has.
Matched(j) ==
  IF ArrayOf[j] = NoArray THEN InPool(j)
  ELSE \E k \in Jobs : ArrayOf[k] = ArrayOf[j] /\ InPool(k)

\* gwd's answer to JOB_MATCH and JOB_HISTORY for the job j: the free slots of the
\* hosts with a queue; without the history of a job that is gone no host may do.
Matches(j) ==
  LET hs == {h \in ToSet(pool) : Matched(j) /\ host[h].queue} IN
  [slots |-> [h \in hs |-> IF host[h].slots > 0 THEN host[h].slots - running[h] ELSE 0],
   fixed_priority |-> [h \in hs |-> host[h].fixed_priority],
   history |-> IF InPool(j) THEN job[j].history ELSE Hosts,
   current |-> job[j].host]

Match ==
  /\ round.next \in DOMAIN jobs
  /\ MatchNext(Matches(jobs[round.next].jid))

-----------------------------------------------------------------------------
(* gw_dm_listener.                                                         *)

\* The history record and the charge of the host.
Charge(j, h, changes) ==
  /\ job' = [job EXCEPT ![j] = changes @@ [@ EXCEPT !.host = h, !.history = @ \cup {h}]]
  /\ running' = [running EXCEPT ![h] = @ + 1]

\* gw_dm_dispatch_job in the state PENDING.
DispatchPending(j, h) ==
  /\ job[j].state = "PENDING"
  /\ Charge(j, h, [reason |-> "NONE"])
  /\ Count(job[j].uid, 0, 1)
  /\ prologs' = [prologs EXCEPT ![j] = @ + 1]
  /\ Write(<<HOST_MONITOR(h), USER_ADD(job[j].uid)>>)

\* In the state WRAPPER the job migrates, or stays when it waited for too long
\* and has become active.
DispatchRunning(j, h) ==
  /\ job[j].state = "WRAPPER"
  /\ \/ /\ Charge(j, h, [state |-> "MIGR", from |-> job[j].host, reschedule |-> FALSE,
                         reason |-> "NONE"])
        /\ Write(<<HOST_MONITOR(h)>>)
     \/ /\ job[j].reason = "SUSPENSION_TIME"
        /\ job' = [job EXCEPT ![j].reschedule = FALSE, ![j].reason = "NONE"]
        /\ Write(<<JOB_DEL(j)>>)
        /\ UNCHANGED running
  /\ UNCHANGED <<upool, prologs>>

\* gw_dm_uncheck_job
Uncheck(j) ==
  /\ IF InPool(j) /\ job[j].history # {} /\ job[j].state # "PENDING"
       THEN /\ job' = [job EXCEPT ![j].reschedule = FALSE, ![j].reason = "NONE"]
            /\ Write(<<JOB_DEL(j)>>)
       ELSE UNCHANGED <<job, inq>>
  /\ UNCHANGED <<upool, running, prologs>>

ListenJob(m) ==
  /\ IF m.act = "FAILED" THEN Uncheck(m.jid)
     ELSE CASE job[m.jid].state = "PENDING" -> DispatchPending(m.jid, m.hid)
            [] job[m.jid].state = "WRAPPER" -> DispatchRunning(m.jid, m.hid)
            [] OTHER -> UNCHANGED <<job, running, upool, prologs, inq>>
  /\ UNCHANGED scheduling

Listen ==
  /\ out # <<>> /\ reload = "NO"
  /\ out' = Tail(out)
  /\ IF Head(out).act = "SCHEDULE_END"
       THEN scheduling' = FALSE /\ UNCHANGED <<job, running, upool, prologs, inq>>
       ELSE ListenJob(Head(out))
  /\ UNCHANGED <<dm, sweep, reload, events>>

\* The end of the pipe: the scheduler is started again and told of the users,
\* the hosts and the jobs.
Reload ==
  /\ UNCHANGED <<upool, job, running, prologs, dm, sweep, out, events>>
  /\ \/ /\ reload = "NO" /\ ~alive /\ out = <<>>
        /\ Prompt => ~sweep
        /\ alive' = TRUE /\ reload' = "USERS" /\ scheduling' = TRUE /\ UNCHANGED inq
     \/ /\ reload = "USERS"
        /\ LET known == SetToSeq({u \in UserIds : upool[u] # NoUser}) IN
           Write([i \in DOMAIN known |-> USER_ADD(known[i])])
        /\ reload' = "HOSTS" /\ UNCHANGED <<alive, scheduling>>
     \/ /\ reload = "HOSTS"
        /\ Write([i \in DOMAIN pool |-> HOST_MONITOR(pool[i])])
        /\ reload' = "JOBS" /\ UNCHANGED <<alive, scheduling>>
     \/ /\ reload = "JOBS"
        /\ LET pending == SetToSeq({j \in Jobs : job[j].state = "PENDING"}) IN
           Write([i \in DOMAIN pending |-> JOB_SCHEDULE(pending[i], "NONE")])
        /\ reload' = "END" /\ UNCHANGED <<alive, scheduling>>
     \/ /\ reload = "END"
        /\ scheduling' = FALSE /\ reload' = "NO" /\ UNCHANGED <<alive, inq>>

SchedulerCrash == Fault /\ alive /\ Die

-----------------------------------------------------------------------------
(* All together.                                                           *)

\* The idle scheduler has handled its updates: they change nothing that anyone
\* sees before the next round, so the others may as well wait for it.
Quiet == alive /\ round = NoRound /\ inq # <<>> => Head(inq).act = "SCHEDULE"

Gwd ==
  \/ \E s \in Submissions : Lookup(s)
  \/ Fill \/ Submitted \/ SweepBegins \/ SweepEnds
  \/ \E u \in UserIds : UserIdle(u)
  \/ \E j \in Jobs : Freed(j) \/ Prolog(j) \/ EndOk(j) \/ EndFail(j) \/ Reschedule(j) \/ Migrated(j)

\* The answers of the IM that the scheduler hears of.
Told(h) ==
  /\ Prompt => Settled
  /\ UNCHANGED running
  /\ Monitored(h) \/ MonitorFails(h)
  /\ Write(<<HOST_MONITOR(h)>>)

Next ==
  \/ (SchedulerStep \/ Match) /\ UNCHANGED <<gwdv, imv>>
  \/ /\ Quiet
     /\ \/ Gwd /\ UNCHANGED <<alive, tables, round, out, imtables>>
        \/ Listen /\ UNCHANGED <<alive, tables, round, imtables>>
        \/ Reload /\ UNCHANGED <<tables, round, imtables>>
        \/ SchedulerCrash /\ UNCHANGED <<gwdv, imtables>>
        \/ Settled /\ Silent /\ UNCHANGED <<gwdv, schedv>>
        \/ (\E h \in Hosts : Told(h)) /\ UNCHANGED <<gwdv, alive, tables, round, out>>

Spec == Init /\ [][Next]_vars

-----------------------------------------------------------------------------
(* What must hold.                                                         *)

\* The types of the variables.
TypeOK ==
  /\ ToSet(users) \subseteq [uid : UserIds, running : Int, banned : SUBSET Hosts,
                            failed : SUBSET Hosts]
  /\ used \in [Hosts -> Int]
  /\ ToSet(jobs) \subseteq [jid : Jobs, ua : Nat, reason : Reasons]
  /\ {alive, scheduling, sweep, discovering} \subseteq BOOLEAN
  /\ job \in [Jobs -> [state : {"NONE", "PENDING", "WRAPPER", "MIGR", "ZOMBIE", "FREED"},
                      uid : UserIds \cup {0}, host : Hosts \cup {NoHost},
                      from : Hosts \cup {NoHost}, history : SUBSET Hosts,
                      reason : Reasons \cup {"EXECUTION_ERROR"}, reschedule : BOOLEAN]]
  /\ host \in [Hosts -> [state : States, fixed_priority : Nat, slots : Nat,
                        queue : BOOLEAN, checked : BOOLEAN]]
  /\ \A u \in UserIds : upool[u] # NoUser => upool[u].active \in Nat

\* A host never has more jobs than its queue takes (QUEUE_MAXJOBSINQUEUE), though
\* the slots a round counts with were read when each job was matched, the answers
\* are applied one by one later, and jobs end, fail, migrate or are sent again to
\* a reloaded scheduler meanwhile.
NoOvercommit == \A h \in Hosts : running[h] <= Capacity[h]

Sent(q, act, j) == \E m \in ToSet(q) : m.act = act /\ m.jid = j

\* A job waiting for a host is never forgotten: the scheduler has it or will be
\* told of it, or it has a host, whatever was lost with a scheduler that died.
Listed ==
  \A j \in Jobs : job[j].state = "PENDING" =>
    \/ \E i \in DOMAIN jobs : jobs[i].jid = j
    \/ Sent(SelectSeq(inq, LAMBDA m : m.act = "JOB_SCHEDULE"), "JOB_SCHEDULE", j)
    \/ Sent(SelectSeq(out, LAMBDA m : m.act = "SUCCESS"), "SUCCESS", j)
    \/ prologs[j] > 0
    \/ dm # Idle /\ j \in ToSet(dm.sub)
    \/ ~alive \/ reload \in {"USERS", "HOSTS", "JOBS"}

\* The sentences act in the pipe q.
Held(q, act) == {i \in DOMAIN q : q[i].act = act}

Rounds ==
  Cardinality(Held(inq, "SCHEDULE"))
  + (IF round = NoRound THEN 0 ELSE 1)
  + Cardinality(Held(out, "SCHEDULE_END"))

\* At most one round is asked for, under way or not yet fully applied, and gwd
\* knows: a second one would count with slots that the first has given away.
OneRound == Rounds <= 1 /\ (Rounds = 1 => scheduling)

\* The MAD is asked once at a time about a host, and gwd never believes that it
\* has fewer queries under way than it has: the limit holds though answers are
\* lost with a MAD that dies.
OneQuery ==
  /\ \A i, k \in DOMAIN queries : i # k => queries[i] # queries[k]
  /\ Len(queries) <= active_queries
  /\ active_queries <= max_active_im_queries + 1
=============================================================================
