---------------------------- MODULE ClientCalls ----------------------------
(***************************************************************************)
(* The calls of the clients of gwd: the client library (client/), the      *)
(* session of the DRMAA library (drmaa/gw_drmaa.c) that the threads of one *)
(* program share, and the commands, which kill jobs and do not wait.       *)
(* A call opens a connection for each request and closes it after the last *)
(* answer.                                                                 *)
(***************************************************************************)
EXTENDS RequestManager

CONSTANTS
  APIs,              \* the calls that each client makes
  MaxCalls,          \* how many calls each client makes
  SESSION_JOBS       \* DRMAA_GW_SESSION_JOBS

VARIABLES
  call,              \* the call that each client is in
  session,           \* drmaa_gw_session.job_ids
  lock,              \* who holds the session's mutex across requests
  ncalls

clientv == <<call, session, lock, ncalls>>
gwdv == <<up, pool, server, dmq, rmq>>

Idle == [api |-> "IDLE", jobs |-> <<>>, todo |-> <<>>, rc |-> "-"]

ClientInit ==
  /\ call = [c \in Clients |-> Idle]
  /\ session = Started
  /\ lock = NoClient
  /\ ncalls = [c \in Clients |-> 0]

InSession(j) == \E i \in DOMAIN session : session[i] = j

\* gw_drmaa_rm_session_id
Without(gone) == Chosen(session, {i \in DOMAIN session : session[i] \notin gone})

-----------------------------------------------------------------------------
(* Connections *)

\* gw_client_disconnect from the old connection and, when there are messages
\* to be sent, gw_client_connect for a new one.
Connect(c, msgs) ==
  /\ inbox' = IF conn[c] = 0 THEN inbox
              ELSE [inbox EXCEPT ![conn[c]] = Append(@, DISENGAGE)]
  /\ conn' = [conn EXCEPT ![c] = 0]
  /\ backlog' = IF up /\ msgs # <<>>
                THEN Append(backlog, [client |-> c, msgs |-> msgs]) ELSE backlog
  /\ replies' = [replies EXCEPT ![c] = IF up \/ msgs = <<>> THEN <<>> ELSE <<EOF>>]

Start(c, api, jobs, todo, msgs) ==
  /\ call[c] = Idle
  /\ api \in APIs[c]
  /\ lock = NoClient
  /\ ncalls[c] < MaxCalls[c] /\ ncalls' = [ncalls EXCEPT ![c] = @ + 1]
  /\ call' = [call EXCEPT ![c] = [api |-> api, jobs |-> jobs, todo |-> todo, rc |-> "SUCCESS"]]
  /\ Connect(c, msgs)
  /\ UNCHANGED gwdv

Return(c) ==
  /\ call' = [call EXCEPT ![c] = Idle]
  /\ Connect(c, <<>>)

-----------------------------------------------------------------------------
(* Requests *)

\* gw_client_job_signal: the message, and for a signal that is not blocking the
\* end of the connection.
Signal(c, op, j) ==
  IF op \in AsyncSignals THEN <<Msg(op, "JOB", j, c), DISENGAGE>>
  ELSE <<Msg(op, "JOB", j, c)>>

\* gw_client_job_submit
Submit(c) == <<Msg("SUBMIT", "JOB", NoJob, c)>>

\* gw_client_wait
WaitFor(c, j) == <<Msg("WAIT", "JOB", j, c)>>

\* gw_client_wait_set marks the first request of a wait for any of a set.
WaitSet(c, jobs, any) ==
  [i \in DOMAIN jobs |->
     Msg("WAIT", IF ~any THEN "JOB" ELSE IF i = 1 THEN "ANY_FIRST" ELSE "ANY", jobs[i], c)]

\* gw_client_job_status
Status(c, j) == <<Msg("JOB_STATUS", "JOB", j, c)>>

\* drmaa_run_job: the session's limit is read before the job is submitted.
RunJob(c) ==
  /\ Len(session) < SESSION_JOBS
  /\ Start(c, "RUN", <<>>, <<>>, Submit(c))
  /\ UNCHANGED <<session, lock>>

\* drmaa_wait_job
WaitJob(c, j) ==
  /\ Start(c, "WAIT", <<j>>, <<>>, WaitFor(c, j))
  /\ UNCHANGED <<session, lock>>

\* drmaa_wait_any
WaitAny(c) ==
  /\ session # <<>>
  /\ Start(c, "WAIT_ANY", session, <<>>, WaitSet(c, session, TRUE))
  /\ UNCHANGED <<session, lock>>

\* drmaa_synchronize of the session's jobs; "DISPOSE" with dispose set.
Synchronize(c, api) ==
  /\ session # <<>>
  /\ Start(c, api, session, session, WaitSet(c, session, FALSE))
  /\ UNCHANGED <<session, lock>>

\* drmaa_control and gwkill of one job
Control(c, op, j) ==
  /\ Start(c, op, <<j>>, <<>>, Signal(c, op, j))
  /\ UNCHANGED <<session, lock>>

\* drmaa_control of all the jobs of the session, with its mutex held.
ControlAll(c) ==
  /\ session # <<>>
  /\ Start(c, "KILL_ALL", session, session, Signal(c, "KILL", Head(session)))
  /\ lock' = c
  /\ UNCHANGED session

\* gwkill without waiting
Async(c, op, j) ==
  /\ call[c] = Idle /\ op \in APIs[c] /\ up
  /\ ncalls[c] < MaxCalls[c] /\ ncalls' = [ncalls EXCEPT ![c] = @ + 1]
  /\ backlog' = Append(backlog, [client |-> c, msgs |-> Signal(c, op, j)])
  /\ UNCHANGED <<gwdv, inbox, conn, replies, call, session, lock>>

\* drmaa_job_ps
JobPs(c, j) ==
  /\ Start(c, "JOB_PS", <<j>>, <<>>, Status(c, j))
  /\ UNCHANGED <<session, lock>>

-----------------------------------------------------------------------------
(* Answers *)

Answer(c) == Head(replies[c])

\* The next request of a call that kills several jobs.
KillNext(c, api, jobs, todo) ==
  /\ call' = [call EXCEPT ![c] = [api |-> api, jobs |-> jobs, todo |-> todo, rc |-> "SUCCESS"]]
  /\ Connect(c, Signal(c, "KILL", Head(todo)))

RunReturn(c) ==
  /\ call[c].api = "RUN"
  /\ session' = IF Answer(c).rc = "SUCCESS" THEN Append(session, Answer(c).job) ELSE session
  /\ Return(c)
  /\ UNCHANGED lock

\* A job that is over leaves the session and gwd.
WaitReturn(c) ==
  /\ call[c].api = "WAIT"
  /\ LET j == call[c].jobs[1]
         rc == Answer(c).rc
         over == rc \in {"JOB_FAIL", "JOB_KILLED"} \/ (rc = "BAD_JOB_ID" /\ InSession(j))
     IN IF over \/ rc = "SUCCESS"
        THEN /\ session' = IF over THEN Without({j}) ELSE session
             /\ KillNext(c, "REAP", <<j>>, <<j>>)
        ELSE Return(c) /\ UNCHANGED session
  /\ UNCHANGED lock

\* The job that a wait for any is told of: for a job that did not succeed, the
\* first of the session whatever the answer says.
AnyJob(c) == IF Answer(c).rc = "SUCCESS" THEN Answer(c).job ELSE call[c].jobs[1]

WaitAnyReturn(c) ==
  /\ call[c].api = "WAIT_ANY"
  /\ LET rc == Answer(c).rc
         over == rc \in {"JOB_FAIL", "JOB_KILLED", "BAD_JOB_ID"}
         j == AnyJob(c)
     IN IF over \/ rc = "SUCCESS"
        THEN /\ session' = IF over THEN Without({j}) ELSE session
             /\ KillNext(c, "REAP", <<j>>, <<j>>)
        ELSE Return(c) /\ UNCHANGED session
  /\ UNCHANGED lock

\* One answer for each job; the last that is not a success is the result.
SyncReturn(c) ==
  /\ call[c].api \in {"SYNC", "DISPOSE"}
  /\ LET rc == IF Answer(c).rc = "SUCCESS" THEN call[c].rc ELSE Answer(c).rc
         last == Len(call[c].todo) = 1 \/ rc = "CONNECTION"
         over == rc \in {"JOB_FAIL", "JOB_KILLED", "SUCCESS"}
     IN IF ~last
        THEN /\ call' = [call EXCEPT ![c].todo = Tail(@), ![c].rc = rc]
             /\ replies' = [replies EXCEPT ![c] = Tail(@)]
             /\ UNCHANGED <<inbox, conn, backlog>>
        ELSE IF over /\ call[c].api = "DISPOSE"
        THEN KillNext(c, "REAP", call[c].jobs, call[c].jobs)
        ELSE Return(c)
  /\ UNCHANGED <<session, lock>>

\* A kill was answered, whatever the answer: the next one.  In the end the jobs
\* leave the session.
ReapReturn(c) ==
  /\ call[c].api \in {"REAP", "KILL_ALL"}
  /\ LET todo == Tail(call[c].todo)
         gone == ToSet(call[c].jobs)
     IN IF todo # <<>>
        THEN /\ KillNext(c, call[c].api, call[c].jobs, todo)
             /\ UNCHANGED <<session, lock>>
        ELSE /\ session' = IF call[c].api = "REAP"
                           THEN Without(gone) ELSE session
             /\ lock' = IF lock = c THEN NoClient ELSE lock
             /\ Return(c)

OtherReturn(c) ==
  /\ call[c].api \in Signals \cup {"JOB_PS"}
  /\ Return(c)
  /\ UNCHANGED <<session, lock>>

Returns(c) ==
  /\ replies[c] # <<>>
  /\ lock \in {NoClient, c}
  /\ \/ RunReturn(c) \/ WaitReturn(c) \/ WaitAnyReturn(c)
     \/ SyncReturn(c) \/ ReapReturn(c) \/ OtherReturn(c)
  /\ UNCHANGED <<gwdv, ncalls>>

\* select returns before the answer.
Timeout(c) ==
  /\ "TIMEOUT" \in APIs[c]
  /\ call[c].api \in {"WAIT", "WAIT_ANY", "SYNC", "DISPOSE"}
  /\ conn[c] # 0 /\ replies[c] = <<>>
  /\ Return(c)
  /\ UNCHANGED <<gwdv, session, lock, ncalls>>

Client(c) ==
  \/ RunJob(c) \/ WaitAny(c) \/ ControlAll(c)
  \/ \E api \in {"SYNC", "DISPOSE"} : Synchronize(c, api)
  \/ \E j \in Jobs : \/ WaitJob(c, j) \/ JobPs(c, j)
                     \/ \E op \in Signals : Control(c, op, j)
                     \/ \E op \in AsyncSignals : Async(c, op, j)
  \/ Returns(c) \/ Timeout(c)
=============================================================================
