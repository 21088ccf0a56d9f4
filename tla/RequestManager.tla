--------------------------- MODULE RequestManager ---------------------------
(***************************************************************************)
(* The request manager of gwd (rm/): the listener that accepts the clients *)
(* and reads their messages, the threads that authorise and register them, *)
(* the list of the connections that wait for an answer, and the handlers   *)
(* that send it.  The DM appears as the queue of requests it works on and  *)
(* as what it answers.  A job is "RUN" from its submission to its end, but *)
(* for the time a wrapper is cancelled for a kill or a stop, and while it  *)
(* is stopped.                                                             *)
(***************************************************************************)
EXTENDS Integers, Sequences, FiniteSets, SequencesExt

CONSTANTS
  Clients, NoClient,
  Jobs,              \* the job pool
  Started,           \* jobs that were submitted before, in their order; they
                     \* run, are stopped or have failed
  Fds,               \* 1..max_number_of_clients-1, the listener's slots
  Admins,            \* clients of the user gwadmin
  Strangers,         \* clients of a user who owns no job
  Dispose,           \* DISPOSE of gwd.conf
  Prompt             \* a thread ends before the next action of the RM, and before
                     \* anything else is read from its client

ASSUME RMAssumption ==
  /\ NoClient \notin Clients
  /\ IsFiniteSet(Fds) /\ Fds = 1..Cardinality(Fds)
  /\ Admins \cup Strangers \subseteq Clients
  /\ Started \in Seq(Jobs)
  /\ {Dispose, Prompt} \subseteq BOOLEAN

VARIABLES
  up,                \* gwd runs
  job_state,         \* a job's state
  client_waiting,    \* job->client_waiting
  restarted,         \* jobs whose job->restarted a RESUME or RESCHEDULE has raised
  active,            \* active_connections: whose connection each slot holds
  connection_list,   \* gw_rm.connection_list, newest first
  threads,           \* the threads of the RM, when they are not Prompt
  dmq, rmq,          \* actions queued for the DM and for the RM
  backlog,           \* connections to be accepted, with what was sent on them
  inbox,             \* what is to be read from each slot's socket
  conn,              \* the slot that holds a client's open connection, 0: none
  replies            \* what a client has received on its connection

pool == <<job_state, client_waiting, restarted>>
server == <<active, connection_list, threads>>
queues == <<dmq, rmq>>
wire == <<backlog, inbox, conn>>
rmvars == <<up, pool, server, queues, wire, replies>>

Signals == {"KILL", "STOP", "RESUME", "HOLD", "RELEASE", "RESCHEDULE"}
AsyncSignals == {"KILL_ASYNC", "KILL_HARD", "STOP_ASYNC"}
Final == {"ZOMBIE", "FAILED"}

NoJob == "-"
EOF == [type |-> "-", job |-> NoJob, rc |-> "CONNECTION"]
DISENGAGE == [type |-> "DISENGAGE"]

Msg(type, wait, job, from) ==
  [type |-> type, wait |-> wait, job |-> job, from |-> from]

\* An answer: gw_msg_t with its msg_type, job_id and rc.
Said(type, job, rc) == [type |-> type, job |-> job, rc |-> rc]

\* gw_job_pool_get finds the job.
InPool(j) == j \in Jobs /\ job_state[j] \notin {"NONE", "FREED"}

RMInit ==
  /\ up = TRUE
  /\ job_state \in [Jobs -> {"NONE", "RUN", "STOPPED", "FAILED"}]
  /\ \A j \in Jobs : job_state[j] = "NONE" <=> j \notin ToSet(Started)
  /\ client_waiting = [j \in Jobs |-> 0]
  /\ restarted = {}
  /\ active = [f \in Fds |-> NoClient]
  /\ connection_list = <<>>
  /\ threads = {}
  /\ dmq = <<>> /\ rmq = <<>>
  /\ backlog = <<>>
  /\ inbox = [f \in Fds |-> <<>>]
  /\ conn = [c \in Clients |-> 0]
  /\ replies = [c \in Clients |-> <<>>]

-----------------------------------------------------------------------------
(* Sockets *)

\* What is sent to a slot reaches the client that holds its other end still.
Reaches(f, c) == active[f] = c /\ conn[c] = f

\* An answer to the slot f, and one to each connection at the places P of the list.
Reply(f, answer) ==
  [c \in Clients |-> IF Reaches(f, c) THEN Append(replies[c], answer) ELSE replies[c]]

Copies(P, answer, c) ==
  [i \in 1..Cardinality({n \in P : Reaches(connection_list[n].fd, c)}) |-> answer]

Received(P, answer) == [c \in Clients |-> replies[c] \o Copies(P, answer, c)]

\* gwd dies, with the answers sent: its connections are closed.
Crash(sent) ==
  /\ up' = FALSE
  /\ replies' = [c \in Clients |->
                   IF conn[c] # 0 \/ \E i \in DOMAIN backlog : backlog[i].client = c
                   THEN Append(sent[c], EOF) ELSE sent[c]]
  /\ conn' = [c \in Clients |-> 0]
  /\ backlog' = <<>>
  /\ UNCHANGED <<pool, server, queues, inbox>>

-----------------------------------------------------------------------------
(* The list of connections *)

\* The numbers of S in their order.
InOrder(S) ==
  CHOOSE f \in [1..Cardinality(S) -> S] :
    \A i, k \in 1..Cardinality(S) : i < k => f[i] < f[k]

\* What s has at the places S, in its order.
Chosen(s, S) == [i \in 1..Cardinality(S) |-> s[InOrder(S)[i]]]

\* The list without the places P.
Rest(P) == Chosen(connection_list, DOMAIN connection_list \ P)

\* The places of a slot; those of a job in op.
Places(f) == {n \in DOMAIN connection_list : connection_list[n].fd = f}

Waiting(op, j) ==
  {n \in DOMAIN connection_list : connection_list[n].op = op /\ connection_list[n].job = j}

-----------------------------------------------------------------------------
(* The listener: gw_rm_listener *)

\* Mutant: a slot in use is given away.
AnySlot == Fds

FreeSlots == {f \in Fds : active[f] = NoClient}

\* A connection gets a slot, or is closed when none is free.
Accept ==
  /\ up /\ backlog # <<>>
  /\ LET b == Head(backlog)
         f == CHOOSE g \in FreeSlots : \A h \in FreeSlots : g <= h
     IN IF FreeSlots = {}
        THEN /\ replies' = [replies EXCEPT ![b.client] = Append(@, EOF)]
             /\ UNCHANGED <<active, inbox, conn>>
        ELSE /\ active' = [active EXCEPT ![f] = b.client]
             /\ inbox' = [inbox EXCEPT ![f] = b.msgs]
             /\ conn' = IF DISENGAGE \in {b.msgs[i] : i \in DOMAIN b.msgs} THEN conn
                        ELSE [conn EXCEPT ![b.client] = f]
             /\ UNCHANGED replies
  /\ backlog' = Tail(backlog)
  /\ UNCHANGED <<up, pool, queues, connection_list, threads>>

\* GW_RM_CONNECTION, _CONNECTION_SUBMIT or _SUBMIT, in the queue of the RM
Connection(f, msg) == [act |-> "CONNECTION", fd |-> f, msg |-> msg]

\* A message of a slot, or an answer to it, has not been worked on.
Busy(f) ==
  \/ \E t \in threads : t.fd = f
  \/ \E i \in DOMAIN rmq : rmq[i].act = "CONNECTION" /\ rmq[i].fd = f

\* Mutant: the waits of a lost connection stay in the list.
CloseNoDelete(f) ==
  /\ active' = [active EXCEPT ![f] = NoClient]
  /\ UNCHANGED <<connection_list, threads>>

\* gw_rm_del_fd_set and gw_connection_list_delete
Close(f) ==
  /\ active' = [active EXCEPT ![f] = NoClient]
  /\ connection_list' = Rest(Places(f))
  /\ UNCHANGED threads

\* A message goes through the queue of the RM; the end of a connection does not.
Read(f) ==
  /\ up /\ active[f] # NoClient /\ inbox[f] # <<>>
  /\ Prompt => ~Busy(f)
  /\ inbox' = [inbox EXCEPT ![f] = Tail(@)]
  /\ IF Head(inbox[f]) = DISENGAGE
     THEN Close(f) /\ UNCHANGED rmq
     ELSE /\ rmq' = Append(rmq, Connection(f, Head(inbox[f])))
          /\ UNCHANGED <<active, connection_list, threads>>
  /\ UNCHANGED <<up, pool, dmq, backlog, conn, replies>>

Listen == Accept \/ \E f \in Fds : Read(f)

\* select returns to the listener.
Readable ==
  /\ up
  /\ \/ backlog # <<>>
     \/ \E f \in Fds : active[f] # NoClient /\ inbox[f] # <<>> /\ ~(Prompt /\ Busy(f))

-----------------------------------------------------------------------------
(* The threads: gw_rm_connection, gw_rm_connection_submit, gw_rm_submit *)

\* gw_rm_auth_user: only gwadmin may name a job that is not in the pool.
Authorised(m) == m.from \in Admins \/ (InPool(m.job) /\ m.from \notin Strangers)

\* gw_connection_list_add
Registered(t, wait) ==
  <<[fd |-> t.fd, op |-> t.msg.type, wait |-> wait, job |-> t.msg.job]>>
    \o connection_list

\* gw_connection_list_wait_in_list
AnyInList(f) == \E n \in Places(f) : connection_list[n].wait = "ANY"

Denied(t) ==
  /\ replies' = Reply(t.fd, Said(t.msg.type, t.msg.job, "PERM"))
  /\ UNCHANGED <<connection_list, dmq>>

\* Mutant: every wait-any registers, also when the client was told already.
WaitAnyAnyway(t) ==
  /\ connection_list' = Registered(t, IF t.msg.wait = "ANY_FIRST" THEN "ANY" ELSE t.msg.wait)
  /\ dmq' = Append(dmq, [act |-> "WAIT", job |-> t.msg.job])
  /\ UNCHANGED replies

\* A wait-any that is not the first of its set is dropped when none of its
\* set is in the list: the client has been told.
RegisterWait(t) ==
  IF t.msg.wait = "ANY" /\ ~AnyInList(t.fd)
  THEN UNCHANGED <<connection_list, dmq, replies>>
  ELSE /\ connection_list' =
            Registered(t, IF t.msg.wait = "ANY_FIRST" THEN "ANY" ELSE t.msg.wait)
       /\ dmq' = Append(dmq, [act |-> "WAIT", job |-> t.msg.job])
       /\ UNCHANGED replies

ThreadWait(t) ==
  /\ t.msg.type = "WAIT"
  /\ IF Authorised(t.msg) THEN RegisterWait(t) ELSE Denied(t)

\* An answer is due to a blocking signal only.
ThreadSignal(t) ==
  /\ t.msg.type \in Signals \cup AsyncSignals
  /\ IF Authorised(t.msg)
     THEN /\ connection_list' = IF t.msg.type \in Signals
                                THEN Registered(t, t.msg.wait) ELSE connection_list
          /\ dmq' = Append(dmq,
                [act |-> CASE t.msg.type = "KILL_ASYNC" -> "KILL"
                           [] t.msg.type = "STOP_ASYNC" -> "STOP"
                           [] OTHER -> t.msg.type, job |-> t.msg.job])
          /\ UNCHANGED replies
     ELSE Denied(t)

\* gw_rm_connection_submit: the message itself goes to the DM and back.
ThreadSubmit(t) ==
  /\ t.msg.type = "SUBMIT"
  /\ dmq' = Append(dmq, [act |-> "ALLOCATE_JOB", fd |-> t.fd, from |-> t.msg.from])
  /\ UNCHANGED <<connection_list, replies>>

\* gw_rm_job_status
ThreadStatus(t) ==
  /\ t.msg.type = "JOB_STATUS"
  /\ replies' = Reply(t.fd,
       Said("JOB_STATUS", t.msg.job,
            IF InPool(t.msg.job) THEN job_state[t.msg.job] ELSE "BAD_JOB_ID"))
  /\ UNCHANGED <<connection_list, dmq>>

\* gw_rm_submit
ThreadAnswer(t) ==
  /\ t.msg.type = "SUBMITTED"
  /\ replies' = Reply(t.fd, Said("SUBMIT", t.msg.job, t.msg.rc))
  /\ UNCHANGED <<connection_list, dmq>>

Work(t) ==
  \/ ThreadWait(t) \/ ThreadSignal(t) \/ ThreadSubmit(t)
  \/ ThreadStatus(t) \/ ThreadAnswer(t)

Thread(t) ==
  /\ up
  /\ Work(t)
  /\ threads' = threads \ {t}
  /\ UNCHANGED <<up, pool, active, wire, rmq>>

-----------------------------------------------------------------------------
(* The DM *)

Post(q, act, j) == Append(q, [act |-> act, job |-> j])

\* gw_dm_jalloc: jobs get the next identifier; a full pool refuses.
DMAllocate(a) ==
  /\ a.act = "ALLOCATE_JOB"
  /\ LET new == {j \in Jobs : job_state[j] = "NONE"}
         Answer(j, rc) == [type |-> "SUBMITTED", job |-> j, rc |-> rc, from |-> a.from]
     IN IF new = {}
        THEN /\ rmq' = Append(rmq, Connection(a.fd, Answer(NoJob, "NO_MEMORY")))
             /\ UNCHANGED job_state
        ELSE LET j == CHOOSE k \in new : TRUE
             IN /\ job_state' = [job_state EXCEPT ![j] = "RUN"]
                /\ rmq' = Append(rmq, Connection(a.fd, Answer(j, "SUCCESS")))
  /\ UNCHANGED <<client_waiting, restarted, connection_list, threads>>
  /\ dmq' = Tail(dmq)

\* Mutant: a job that is being killed counts as over.
OverSoon(j) == job_state[j] \in Final \cup {"KILL_CANCEL"}

\* gw_dm_wait answers at once for a job that is over.
Over(j) == job_state[j] \in Final

DMWait(a) ==
  /\ a.act = "WAIT"
  /\ IF InPool(a.job)
     THEN /\ client_waiting' = [client_waiting EXCEPT ![a.job] = @ + 1]
          /\ rmq' = IF Over(a.job)
                    THEN Post(rmq, "WAIT_SUCCESS", a.job) ELSE rmq
     ELSE /\ rmq' = Post(rmq, "WAIT_FAILED", a.job)
          /\ UNCHANGED client_waiting
  /\ dmq' = Tail(dmq)
  /\ UNCHANGED <<job_state, restarted, connection_list, threads>>

InState(j, S) == j \in Jobs /\ job_state[j] \in S

\* gw_dm_kill: a job that is not on a host or has ended is freed, one whose wrapper
\* runs is cancelled first and answered for later, any other is not killed.
DMKill(a) ==
  /\ a.act = "KILL"
  /\ \/ /\ InState(a.job, {"RUN", "STOPPED"} \cup Final)
        /\ job_state' = [job_state EXCEPT ![a.job] = "FREED"]
        /\ rmq' = Post(rmq, "KILL_SUCCESS", a.job)
     \/ /\ InState(a.job, {"RUN"})
        /\ job_state' = [job_state EXCEPT ![a.job] = "KILL_CANCEL"]
        /\ UNCHANGED rmq
     \/ /\ ~InState(a.job, {"STOPPED"} \cup Final)
        /\ rmq' = Post(rmq, "KILL_FAILED", a.job)
        /\ UNCHANGED job_state
  /\ UNCHANGED restarted

\* gw_dm_kill_hard frees a job in any state.  Whoever has stopped it is not told.
DMKillHard(a) ==
  /\ a.act = "KILL_HARD"
  /\ IF InPool(a.job)
     THEN /\ job_state' = [job_state EXCEPT ![a.job] = "FREED"]
          /\ rmq' = Post(rmq, "KILL_SUCCESS", a.job)
     ELSE rmq' = Post(rmq, "KILL_FAILED", a.job) /\ UNCHANGED job_state
  /\ UNCHANGED restarted

Signalled(result, a) == Append(rmq, [act |-> result, op |-> a.act, job |-> a.job])

\* The DM refuses: for a job in "RUN" it depends on what "RUN" hides.
Refused(a) == rmq' = Signalled("FAILED", a) /\ UNCHANGED <<job_state, restarted>>

\* gw_dm_hold: a job that is PENDING
DMHold(a) ==
  /\ a.act = "HOLD"
  /\ \/ Refused(a)
     \/ /\ InState(a.job, {"RUN"})
        /\ rmq' = Signalled("SUCCESS", a)
        /\ UNCHANGED <<job_state, restarted>>

\* gw_dm_release: a job in HOLD
DMRelease(a) ==
  /\ a.act = "RELEASE"
  /\ \/ Refused(a)
     \/ /\ InState(a.job, {"RUN"})
        /\ rmq' = Signalled("SUCCESS", a)
        /\ UNCHANGED <<job_state, restarted>>

\* gw_dm_stop: a wrapper that runs is cancelled; the answer comes with its epilog.
DMStop(a) ==
  /\ a.act = "STOP"
  /\ \/ Refused(a)
     \/ /\ InState(a.job, {"RUN"})
        /\ job_state' = [job_state EXCEPT ![a.job] = "STOP_CANCEL"]
        /\ UNCHANGED <<restarted, rmq>>

\* A job that was stopped or has failed is PENDING again.
Again(a) ==
  /\ job_state' = [job_state EXCEPT ![a.job] = "RUN"]
  /\ restarted' = restarted \union {a.job}
  /\ rmq' = Signalled("SUCCESS", a)

\* gw_dm_resume
DMResume(a) ==
  /\ a.act = "RESUME"
  /\ IF InState(a.job, {"STOPPED"}) THEN Again(a) ELSE Refused(a)

\* gw_dm_reschedule: a wrapper that runs goes on until there is a host for it.
DMReschedule(a) ==
  /\ a.act = "RESCHEDULE"
  /\ \/ InState(a.job, {"FAILED"}) /\ Again(a)
     \/ ~InState(a.job, {"FAILED"}) /\ Refused(a)
     \/ /\ InState(a.job, {"RUN"})
        /\ rmq' = Signalled("SUCCESS", a)
        /\ UNCHANGED <<job_state, restarted>>

DMSignal(a) ==
  /\ \/ DMKill(a) \/ DMKillHard(a) \/ DMHold(a) \/ DMRelease(a)
     \/ DMStop(a) \/ DMResume(a) \/ DMReschedule(a)
  /\ dmq' = Tail(dmq)
  /\ UNCHANGED <<client_waiting, connection_list, threads>>

DMStep ==
  /\ up /\ dmq # <<>>
  /\ LET a == Head(dmq) IN DMAllocate(a) \/ DMWait(a) \/ DMSignal(a)
  /\ UNCHANGED <<up, active, wire, replies>>

\* gw_dm_zombie and gw_dm_failed: the clients that wait are told; a job that
\* is done and for which nobody waits is disposed of.
Notify(j, end) ==
  /\ rmq' = IF client_waiting[j] > 0 THEN Post(rmq, "WAIT_SUCCESS", j) ELSE rmq
  /\ dmq' = IF end = "ZOMBIE" /\ client_waiting[j] <= 0 /\ Dispose
            THEN Post(dmq, "KILL", j) ELSE dmq

JobEnds(j) ==
  /\ job_state[j] = "RUN"
  /\ \E end \in Final : job_state' = [job_state EXCEPT ![j] = end] /\ Notify(j, end)

\* gw_dm_zombie after KILL_EPILOG
JobKilled(j) ==
  /\ job_state[j] = "KILL_CANCEL"
  /\ job_state' = [job_state EXCEPT ![j] = "FREED"]
  /\ rmq' = Post(rmq, "KILL_SUCCESS", j)
  /\ UNCHANGED dmq

\* gw_dm_stopped after STOP_EPILOG
JobStopped(j) ==
  /\ job_state[j] = "STOP_CANCEL"
  /\ job_state' = [job_state EXCEPT ![j] = "STOPPED"]
  /\ rmq' = Append(rmq, [act |-> "SUCCESS", op |-> "STOP", job |-> j])
  /\ UNCHANGED dmq

\* gw_dm_wrapper_failed_cb of a job that is being cancelled takes it to EPILOG_FAIL,
\* from where it goes on as any job that failed, as does an epilog that was queued
\* before: the kill or the stop is forgotten and nobody is answered.
CancelForgotten(j) ==
  /\ job_state[j] \in {"KILL_CANCEL", "STOP_CANCEL"}
  /\ job_state' = [job_state EXCEPT ![j] = "RUN"]
  /\ UNCHANGED queues

JobStep(j) ==
  /\ up
  /\ JobEnds(j) \/ JobKilled(j) \/ JobStopped(j) \/ CancelForgotten(j)
  /\ UNCHANGED <<up, client_waiting, restarted, server, wire, replies>>

-----------------------------------------------------------------------------
(* The handlers of the RM's action thread *)

\* gw_rm_wait_remove_anys: the places P and those of the waits that go with them.
WithAnys(P) ==
  P \union {n \in DOMAIN connection_list :
              /\ connection_list[n].op = "WAIT"
              /\ \E i \in P : /\ connection_list[i].fd = connection_list[n].fd
                              /\ connection_list[i].wait = "ANY"}

\* Mutant: a wait that is answered lowers the counters of all jobs.
WaitsOfAll(P) ==
  [j \in Jobs |-> IF InPool(j) /\ P # {} THEN client_waiting[j] - 1 ELSE client_waiting[j]]

\* client_waiting without the waits at the places P
WaitsLess(P) ==
  [j \in Jobs |-> IF InPool(j)
                   THEN client_waiting[j] - Cardinality(P \intersect Waiting("WAIT", j))
                   ELSE client_waiting[j]]

\* gw_rm_wait_success: answers, and unlocks the job's mutex in any case, also
\* without a job.
RMWaitSuccess(a) ==
  /\ a.act = "WAIT_SUCCESS"
  /\ LET ws == Waiting("WAIT", a.job)
     IN IF ~InPool(a.job)
        THEN Crash(Received(ws, Said("WAIT", a.job, "BAD_JOB_ID")))
        ELSE /\ replies' = Received(ws,
                  Said("WAIT", a.job,
                       IF job_state[a.job] = "FAILED" THEN "JOB_FAIL" ELSE "SUCCESS"))
             /\ connection_list' = Rest(WithAnys(ws))
             /\ client_waiting' = WaitsLess(WithAnys(ws))
             /\ rmq' = Tail(rmq)
             /\ UNCHANGED <<up, job_state, restarted, active, threads, dmq, wire>>

\* gw_rm_wait_failed answers one client, and leaves client_waiting of the job alone.
RMWaitFailed(a) ==
  /\ a.act = "WAIT_FAILED"
  /\ LET ws == Waiting("WAIT", a.job)
         one == {n \in ws : \A k \in ws : n <= k}
     IN /\ replies' = Received(one, Said("WAIT", a.job, "BAD_JOB_ID"))
        /\ connection_list' = Rest(WithAnys(one))
        /\ client_waiting' = WaitsLess(WithAnys(one) \ one)
  /\ rmq' = Tail(rmq)
  /\ UNCHANGED <<up, job_state, restarted, active, threads, dmq, wire>>

\* Mutant: the clients that wait for a killed job are not told.
ToldOfKillNobody(j) == {}

\* gw_rm_kill_success tells the clients that wait for the job, too.
ToldOfKill(j) == Waiting("WAIT", j)

RMKillSuccess(a) ==
  /\ a.act = "KILL_SUCCESS"
  /\ LET ks == Waiting("KILL", a.job)
         ws == ToldOfKill(a.job)
     IN /\ replies' = [c \in Clients |->
             replies[c] \o Copies(ks, Said("KILL", a.job, "SUCCESS"), c)
                        \o Copies(ws, Said("KILL", a.job, "JOB_KILLED"), c)]
        /\ connection_list' = Rest(ks \union WithAnys(ws))
        /\ client_waiting' = WaitsLess(WithAnys(ws) \ ws)
  /\ rmq' = Tail(rmq)
  /\ UNCHANGED <<up, job_state, restarted, active, threads, dmq, wire>>

\* Every connection registered for the same signal and job gets the same answer.
Answered(op, a, ok) ==
  /\ LET rc == IF ok THEN "SUCCESS"
               ELSE IF InPool(a.job) THEN "BAD_JOB_STATE" ELSE "BAD_JOB_ID"
     IN /\ replies' = Received(Waiting(op, a.job), Said(op, a.job, rc))
        /\ connection_list' = Rest(Waiting(op, a.job))
  /\ rmq' = Tail(rmq)
  /\ UNCHANGED <<up, pool, active, threads, dmq, wire>>

RMKillFailed(a) == a.act = "KILL_FAILED" /\ Answered("KILL", a, FALSE)

SignalAnswer(op, a) ==
  a.act \in {"SUCCESS", "FAILED"} /\ a.op = op /\ Answered(op, a, a.act = "SUCCESS")

RMHold(a) == SignalAnswer("HOLD", a)
RMRelease(a) == SignalAnswer("RELEASE", a)
RMStop(a) == SignalAnswer("STOP", a)
RMResume(a) == SignalAnswer("RESUME", a)
RMReschedule(a) == SignalAnswer("RESCHEDULE", a)

\* When Prompt, the thread ends before the next action of the RM.
RMConnection(a) ==
  /\ a.act = "CONNECTION"
  /\ LET t == [fd |-> a.fd, msg |-> a.msg]
     IN IF Prompt
        THEN Work(t) /\ UNCHANGED threads
        ELSE /\ threads' = threads \cup {t}
             /\ UNCHANGED <<connection_list, dmq, replies>>
  /\ rmq' = Tail(rmq)
  /\ UNCHANGED <<up, pool, active, wire>>

RMStep ==
  /\ up /\ rmq # <<>>
  /\ LET a == Head(rmq)
     IN \/ RMConnection(a)
        \/ RMWaitSuccess(a) \/ RMWaitFailed(a) \/ RMKillSuccess(a) \/ RMKillFailed(a)
        \/ RMHold(a) \/ RMRelease(a) \/ RMStop(a) \/ RMResume(a) \/ RMReschedule(a)

Server == (\E t \in threads : Thread(t)) \/ DMStep \/ RMStep
=============================================================================
