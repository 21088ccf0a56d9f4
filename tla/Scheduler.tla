----------------------------- MODULE Scheduler -----------------------------
(***************************************************************************)
(* The scheduler process: gw_scheduler_loop, its tables of users, hosts    *)
(* and jobs, and the builtin policy gw_sched. gwd writes to its standard   *)
(* input (inq) and reads its standard output (out); for each job of a      *)
(* round it asks gwd's Request manager which hosts match.                  *)
(*                                                                         *)
(* The weights of the policies only order the jobs of a round and the      *)
(* hosts of a job: the model takes any order in which the urgent jobs      *)
(* (fixed priority 20) come first, and any host that the limits allow.     *)
(***************************************************************************)
EXTENDS Integers, FiniteSets, SequencesExt

CONSTANTS
  Jobs,
  Hosts,
  NoHost,
  UserIds,              \* slots of gwd's user pool
  ArrayOf,              \* the array of a job, or NoArray
  NoArray,
  Urgent,               \* jobs with the fixed priority 20
  Rank,                 \* the rank of a host
  DISPATCH_CHUNK,       \* sched.conf: dispatches of a round, 0 for no limit
  MAX_RUNNING_USER,     \* sched.conf: running jobs of a user, 0 for no limit
  MAX_RUNNING_RESOURCE  \* sched.conf: used slots of a host, 0 for no limit

ASSUME SchedulerAssumption ==
  /\ NoHost \notin Hosts
  /\ IsFiniteSet(Jobs) /\ IsFiniteSet(Hosts) /\ IsFiniteSet(UserIds)
  /\ Urgent \subseteq Jobs
  /\ Rank \in [Hosts -> Int]
  /\ {DISPATCH_CHUNK, MAX_RUNNING_USER, MAX_RUNNING_RESOURCE} \subseteq Nat

VARIABLES
  alive,   \* the process runs
  users,   \* sched.users: uid, running jobs, hosts banned now, hosts failed on
  used,    \* sched.hosts: the used slots of a host, Unknown before HOST_MONITOR
  jobs,    \* sched.jobs: jid, index of the user, reason
  round,   \* the round under way: next job to match, last array, matches made
  inq,     \* sentences from gwd: the pipe and the queue qsched
  out      \* answers to gwd in the pipe

tables == <<users, used, jobs>>
schedv == <<alive, tables, round, inq, out>>

Unknown  == -1
NoRound  == [next |-> 0, last |-> NoArray, mhosts |-> <<>>]
NoHosts  == [h \in {} |-> 0]

Reasons == {"NONE", "USER_REQUESTED", "SUSPENSION_TIME", "RESCHEDULING_TIMEOUT"}

Known == {h \in Hosts : used[h] # Unknown}

\* The hosts known were monitored before.
SchedulerInit(known) ==
  /\ alive = TRUE
  /\ users = <<>>
  /\ used = [h \in Hosts |-> IF h \in known THEN 0 ELSE Unknown]
  /\ jobs = <<>>
  /\ round = NoRound
  /\ inq = <<>>
  /\ out = <<>>

\* gw_dm_mad.c: gwd writes the sentences ms; nobody reads them when the process
\* is dead.
Write(ms) == inq' = IF alive THEN inq \o ms ELSE inq

Answer(ms) == out' = out \o ms

\* The process ends: what it printed stays in the pipe.
Die ==
  /\ alive' = FALSE
  /\ users' = <<>>
  /\ used' = [h \in Hosts |-> Unknown]
  /\ jobs' = <<>>
  /\ round' = NoRound
  /\ inq' = <<>>
  /\ UNCHANGED out

-----------------------------------------------------------------------------
(* The tables.                                                             *)

NewUser(m) == [uid |-> m.uid, running |-> m.running, banned |-> {}, failed |-> {}]

\* gw_scheduler_add_user
AddUser(m) ==
  /\ users' = IF \E i \in DOMAIN users : users[i].uid = m.uid
                THEN [i \in DOMAIN users |->
                        IF users[i].uid = m.uid THEN [users[i] EXCEPT !.running = m.running]
                        ELSE users[i]]
                ELSE Append(users, NewUser(m))
  /\ UNCHANGED <<used, jobs>>

\* gw_scheduler_add_host
AddHost(m) ==
  /\ used' = [used EXCEPT ![m.hid] = m.uslots]
  /\ UNCHANGED <<users, jobs>>

\* gw_scheduler_del_user: the only user goes whoever he is, and the last one
\* when the user is not in the table; the jobs keep the indices they had.
DelUser(m) ==
  LET mine == {i \in DOMAIN users : users[i].uid = m.uid} IN
  /\ users' = IF Len(users) = 1 THEN <<>>
              ELSE IF mine # {} THEN RemoveAt(users, CHOOSE i \in mine : TRUE)
              ELSE Front(users)
  /\ UNCHANGED <<used, jobs>>

\* gw_scheduler_job_add: nothing for a user that is not in the table.
JobAdd(m) ==
  LET mine == {i \in DOMAIN users : users[i].uid = m.uid} IN
  /\ jobs' = IF mine = {} THEN jobs
             ELSE Append(jobs, [jid |-> m.jid, ua |-> CHOOSE i \in mine : TRUE,
                                reason |-> m.reason])
  /\ UNCHANGED <<users, used>>

\* Mutant: the whole list goes when the job is not found.
JobDelLast(m) ==
  /\ jobs' = IF jobs = <<>> THEN jobs
             ELSE IF \E i \in DOMAIN jobs : jobs[i].jid = m.jid
               THEN RemoveFirst(jobs, CHOOSE e \in ToSet(jobs) : e.jid = m.jid)
               ELSE Front(jobs)
  /\ UNCHANGED <<users, used>>

\* gw_scheduler_job_del: the first entry of the job.
JobDel(m) ==
  LET mine == {i \in DOMAIN jobs : jobs[i].jid = m.jid} IN
  /\ jobs' = IF mine = {} THEN jobs
             ELSE RemoveAt(jobs, CHOOSE i \in mine : \A k \in mine : i <= k)
  /\ UNCHANGED <<users, used>>

\* gw_scheduler_job_failed: banned for a tenth of FR_MAX_BANNED the first time;
\* later for longer and longer, or not at all within 10 seconds of the first.
JobFailed(m) ==
  /\ \E again \in BOOLEAN :
       users' = [i \in DOMAIN users |->
                   IF users[i].uid = m.uid /\ m.hid \in Known
                     THEN [users[i] EXCEPT
                             !.failed = @ \union {m.hid},
                             !.banned = IF m.hid \in users[i].failed /\ ~again THEN @
                                        ELSE @ \union {m.hid}]
                     ELSE users[i]]
  /\ UNCHANGED <<used, jobs>>

\* gw_scheduler_job_success
JobSuccess(m) ==
  /\ users' = [i \in DOMAIN users |->
                 IF users[i].uid = m.uid
                   THEN [users[i] EXCEPT !.failed = @ \ {m.hid}, !.banned = @ \ {m.hid}]
                   ELSE users[i]]
  /\ UNCHANGED <<used, jobs>>

-----------------------------------------------------------------------------
(* The loop.                                                               *)

\* gw_scheduler_loop takes the next sentence of the queue.
Take(act) ==
  /\ alive
  /\ round = NoRound
  /\ inq # <<>>
  /\ Head(inq).act = act
  /\ inq' = Tail(inq)

\* A sentence that updates the tables.
HandleUpdate ==
  /\ \/ Take("USER_ADD")     /\ AddUser(Head(inq))
     \/ Take("HOST_MONITOR") /\ AddHost(Head(inq))
     \/ Take("USER_DEL")     /\ users # <<>> /\ DelUser(Head(inq))
     \/ Take("JOB_SCHEDULE") /\ JobAdd(Head(inq))
     \/ Take("JOB_DEL")      /\ JobDel(Head(inq))
     \/ Take("JOB_FAILED")   /\ JobFailed(Head(inq))
     \/ Take("JOB_SUCCESS")  /\ JobSuccess(Head(inq))
  /\ UNCHANGED <<alive, round, out>>

\* SCHEDULE: a round begins, or ends at once when a table is empty.
HandleSchedule ==
  /\ Take("SCHEDULE")
  /\ IF Known # {} /\ users # <<>> /\ jobs # <<>>
       THEN round' = [NoRound EXCEPT !.next = 1] /\ UNCHANGED out
       ELSE Answer(<<[act |-> "SCHEDULE_END"]>>) /\ UNCHANGED round
  /\ UNCHANGED <<alive, tables>>

\* The ban of a host ends.
BanEnds ==
  /\ \E i \in DOMAIN users : \E h \in users[i].banned :
       users' = [users EXCEPT ![i].banned = @ \ {h}]
  /\ UNCHANGED <<alive, used, jobs, round, inq, out>>

-----------------------------------------------------------------------------
(* Matching.                                                               *)

\* The job points past the end of the table of users (see DelUser): what is
\* read there is undefined.
Stray(e) == e.ua \notin DOMAIN users

Banned(e) == IF Stray(e) THEN SUBSET Hosts ELSE {users[e.ua].banned}

\* gw_scheduler_filter_select_queues: m is gwd's answer for the job.
Kept(e, m, banned) ==
  {h \in (DOMAIN m.slots \cap Known) \ banned :
     CASE e.reason \in {"USER_REQUESTED", "SUSPENSION_TIME"} -> h \notin m.history
       [] e.reason = "RESCHEDULING_TIMEOUT" ->
            h \notin m.history /\ Rank[h] > Rank[m.current]
       [] OTHER -> m.fixed_priority[h] # 0}

\* "Already made match-making": the job takes the hosts of the one before it.
SkipsMatching(e) == ArrayOf[e.jid] # NoArray /\ round.last = ArrayOf[e.jid]

\* gw_scheduler_matching_arrays, for the next job e of the list; m is the answer
\* of gw_client_match_job_fd and gw_client_job_history_fd, with no hosts when the
\* job is gone or nothing matches.
MatchNext(m) ==
  LET e == jobs[round.next] IN
  /\ round.next \in DOMAIN jobs
  /\ \E banned \in Banned(e) :
       LET kept == Kept(e, m, banned) IN
       IF SkipsMatching(e)
         THEN /\ round' = [round EXCEPT !.next = @ + 1, !.mhosts = Append(@, Last(@))]
              /\ UNCHANGED out
         ELSE /\ round' = [next   |-> round.next + 1,
                           mhosts |-> Append(round.mhosts, [h \in kept |-> m.slots[h]]),
                           last   |-> IF DOMAIN m.slots = {} THEN round.last
                                      ELSE ArrayOf[e.jid]]
              /\ IF DOMAIN m.slots # {} /\ kept = {} /\ e.reason # "NONE"
                   THEN Answer(<<[act |-> "FAILED", jid |-> e.jid]>>)
                   ELSE UNCHANGED out
  /\ UNCHANGED <<alive, tables, inq>>

-----------------------------------------------------------------------------
(* Dispatching.                                                            *)

\* gw_scheduler_job_policies: the orders in which the round may try the jobs.
Orders ==
  {p \in [DOMAIN jobs -> DOMAIN jobs] :
     /\ \A i, k \in DOMAIN jobs : i # k => p[i] # p[k]
     /\ \A i, k \in DOMAIN jobs :
          i < k /\ jobs[p[k]].jid \in Urgent => jobs[p[i]].jid \in Urgent}

\* The members of the set S of positions in their order.
InOrder(S) ==
  CHOOSE f \in [1..Cardinality(S) -> S] :
    \A i, k \in 1..Cardinality(S) : i < k => f[i] < f[k]

\* The entries of the list p at the positions S, in the order of p.
Entries(p, S) == [k \in DOMAIN InOrder(S) |-> p[InOrder(S)[k]]]

\* gw_sched: the jobs for the first time, then those to be rescheduled.
Passes(p) ==
  LET first == {i \in DOMAIN p : jobs[p[i]].reason = "NONE"} IN
  Entries(p, first) \o Entries(p, DOMAIN p \ first)

\* The attempts before the i-th that found a host; those of the user u; those that
\* found the host h.
Before(a, i) == {k \in 1..(i - 1) : a[k] # NoHost}
By(s, a, i, u) == {k \in Before(a, i) : jobs[s[k]].ua = u}
To(a, i, h) == {k \in Before(a, i) : a[k] = h}

\* The positions of the list p that the attempts before the i-th have left
\* (gw_scheduler_job_del): a job that is listed twice loses its first entry,
\* whichever was dispatched.
Left(p, s, a, i) ==
  {k \in DOMAIN p :
     Cardinality({x \in Before(a, i) : jobs[s[x]].jid = jobs[p[k]].jid})
       <= Cardinality({x \in 1..(k - 1) : jobs[p[x]].jid = jobs[p[k]].jid})}

\* max_dsp: without a limit, the length of the list when the pass begins.
MaxDispatch(s, a, i) ==
  IF DISPATCH_CHUNK > 0 THEN DISPATCH_CHUNK
  ELSE IF jobs[s[i]].reason = "NONE" THEN Len(jobs)
  ELSE Len(jobs) - Cardinality({k \in Before(a, i) : jobs[s[k]].reason = "NONE"})

\* The i-th attempt looks for a host: its entry is still in the list.
MayDispatch(p, s, a, i) ==
  LET u == jobs[s[i]].ua IN
  /\ \E k \in Left(p, s, a, i) : p[k] = s[i]
  /\ Cardinality(Before(a, i)) < MaxDispatch(s, a, i)
  /\ MAX_RUNNING_USER = 0 \/ u \notin DOMAIN users
       \/ users[u].running + Cardinality(By(s, a, i, u)) < MAX_RUNNING_USER

\* Mutant: host->dispatched is not taken from the free slots.
FitUncounted(s, a, i) == {h \in DOMAIN round.mhosts[s[i]] : round.mhosts[s[i]][h] > 0}

\* The matching hosts with a free slot for the i-th attempt.
Fit(s, a, i) ==
  {h \in DOMAIN round.mhosts[s[i]] :
     /\ MAX_RUNNING_RESOURCE = 0
          \/ used[h] + Cardinality(To(a, i, h)) < MAX_RUNNING_RESOURCE
     /\ round.mhosts[s[i]][h] - Cardinality(To(a, i, h)) > 0}

\* The outcomes of gw_sched over the list p, whose jobs are tried in the order s.
Outcomes(p, s) ==
  {a \in [DOMAIN s -> Hosts \union {NoHost}] :
     \A i \in DOMAIN s :
       \/ MayDispatch(p, s, a, i) /\ a[i] \in Fit(s, a, i)
       \/ /\ a[i] = NoHost
          /\ \/ ~MayDispatch(p, s, a, i)
             \/ Fit(s, a, i) = {}
             \/ Stray(jobs[s[i]]) /\ MAX_RUNNING_USER > 0}

\* gw_scheduler_job_policies, gw_sched and SCHEDULE_END.
Dispatch ==
  /\ round # NoRound
  /\ round.next > Len(jobs)
  /\ \E p \in Orders : \E a \in Outcomes(p, Passes(p)) :
       LET s    == Passes(p)
           sent == InOrder(Before(a, Len(s) + 1))
           rest == Entries(p, Left(p, s, a, Len(s) + 1))
       IN
       /\ Answer([k \in DOMAIN sent |-> [act |-> "SUCCESS", jid |-> jobs[s[sent[k]]].jid,
                                         hid |-> a[sent[k]]]]
                 \o <<[act |-> "SCHEDULE_END"]>>)
       /\ jobs' = [k \in DOMAIN rest |-> jobs[rest[k]]]
  /\ round' = NoRound
  /\ UNCHANGED <<alive, users, used, inq>>

\* Undefined behaviour that may end the process: USER_DEL for an empty table
\* makes num_users -1, and a stray index reads and writes past the table.
Crash ==
  /\ alive
  /\ \/ round = NoRound /\ inq # <<>> /\ Head(inq).act = "USER_DEL" /\ users = <<>>
     \/ round # NoRound /\ \E i \in DOMAIN jobs : Stray(jobs[i])
  /\ Die

\* The steps of the process that ask nothing of gwd.
SchedulerStep == HandleUpdate \/ HandleSchedule \/ BanEnds \/ Dispatch \/ Crash
=============================================================================
